---- MODULE Spec2Model ----
(***************************************************************************)
(* Resilience core of TonnyTray's backend: the circuit breaker             *)
(* (utils/circuit_breaker.py), the offline retry queue                     *)
(* (utils/offline_queue.py), the n8n client                                *)
(* (integrations/n8n_client.py), which uses both, and the transcription   *)
(* client (integrations/whisperlivekit_client.py), which has a breaker of  *)
(* its own.                                                                *)
(*                                                                         *)
(* Scheduling model: asyncio, one event loop.  A coroutine runs without    *)
(* interruption from one suspension to the next.  In CircuitBreaker.call   *)
(* the only suspension is `await func(...)`: _should_attempt_reset has no  *)
(* await of its own, and the asyncio.Lock is only ever held across code    *)
(* without awaits, so acquiring it never suspends.  A call is therefore    *)
(* two atomic steps, CallBegin (up to the invocation of func) and CallEnd  *)
(* (from func's outcome to the end of the finally block).                  *)
(***************************************************************************)
EXTENDS Integers, Sequences, FiniteSets, TLC

\* ------------------------------------------------------------------ bounds
NumCallers == 2
MaxCalls == 5
MaxTime == 4
RecoveryTimeout == 2
MaxAdds == 2
MaxItems == 1
MaxRetryLimit == 10
NumRequests == 2
MaxStamp == 1
MaxReconnectAttempts == 2
MaxQueued == 4
MaxChunks == 2
MaxReconnectTasks == 2

\* ------------------------------------------------------- program constants
FailureThreshold == 3
None == -1
BackoffCap == 300
DefaultLimit == 10
KeepSeconds == 604800
ReconnectInterval == 5
DefaultMaxRetries == 3
HistoryShown == 10

Callers == 1..NumCallers
Requests == 1..NumRequests
ConnCallers == {"owner", "reconnect"}
Outcomes == {"success", "failure", "other"}

VARIABLES
    \* CircuitBreaker
    state,
    failure_count,
    success_count,
    total_calls,
    last_failure_time,
    last_success_time,
    state_changes,
    half_open_test_in_progress,
    \* callers of CircuitBreaker.call: position and locals
    pc,
    startedIn,
    isProbe,
    ncalls,
    \* history
    consec,
    lastOp,
    \* time.time()
    now,
    \* OfflineQueue: the queue_items table, sqlite's AUTOINCREMENT sequence,
    \* _retry_handlers, _processing
    items,
    seq,
    retry_handlers,
    processing,
    \* the process_queue run that is suspended in `await handler(...)`:
    \* its fetched list and the index of the item being handled
    pq_items,
    pq_idx,
    \* what the last queue operation returned
    ret,
    \* history: every id a row was ever stored under
    ever_ids,
    \* history: per id, the arguments of every invocation of a retry handler
    \* for that item, in order
    handled,
    \* history: per id, the arguments add_item was called with
    added,
    \* a second OfflineQueue instance over the same database file: its
    \* _processing flag and its process_queue run (fetched list, index)
    peer,
    \* N8nClient: self.state (conn_state here, `state` being the breaker's),
    \* self.ws, _pending_requests, _reconnect_attempts and the three tasks
    conn_state,
    ws,
    pending_requests,
    reconnect_attempts,
    reconnect_task,
    ping_task,
    message_handler_task,
    \* callers of connect(): position
    conn_pc,
    \* callers of _send_ws_request: the future each created, position, the
    \* request id (while the call runs) and how the call ended
    futures,
    req_pc,
    req_id,
    req_out,
    \* history: per kind of task, how many tasks that have not ended are no
    \* longer referenced by the client (_ping_task, _message_handler_task,
    \* _reconnect_task point to a later task, or to none)
    unreferenced,
    \* WhisperLiveKitClient: the fields of the client object (_connected,
    \* state, ws, the three task fields, _reconnect_attempts, _audio_buffer,
    \* _buffer_lock)
    wlk,
    \* the tasks created by _schedule_reconnect: position and, in the flush,
    \* the index of the chunk being sent
    rtask,
    \* callers of connect() and send_audio(): position
    wpc,
    \* history: the audio chunks the socket accepted, in order
    wire

cbVars == <<state, failure_count, success_count, total_calls, last_failure_time,
            last_success_time, state_changes, half_open_test_in_progress>>
callerVars == <<pc, startedIn, isProbe, ncalls>>
qVars == <<items, seq, retry_handlers, processing, pq_items, pq_idx, ret, ever_ids,
          handled, added, peer>>
n8nVars == <<conn_state, ws, pending_requests, reconnect_attempts, reconnect_task,
            ping_task, message_handler_task, conn_pc, futures, req_pc, req_id,
            req_out, unreferenced>>
wlkVars == <<wlk, rtask, wpc, wire>>
vars == <<cbVars, callerVars, consec, lastOp, now, qVars, n8nVars, wlkVars>>

NoOp == [op |-> "init", c |-> 0, out |-> "none"]

\* An OfflineQueue instance right after __init__: no run in progress.
NoPeer == [processing |-> FALSE, pq_items |-> <<>>, pq_idx |-> 0]

InitBreaker ==
    /\ state = "closed"
    /\ failure_count = 0
    /\ success_count = 0
    /\ total_calls = 0
    /\ last_failure_time = None
    /\ last_success_time = None
    /\ state_changes = <<>>
    /\ half_open_test_in_progress = FALSE

InitCallers ==
    /\ pc = [c \in Callers |-> "idle"]
    /\ startedIn = [c \in Callers |-> "none"]
    /\ isProbe = [c \in Callers |-> FALSE]
    /\ ncalls = 0

\* OfflineQueue.__init__ on a fresh database file.
InitQueue ==
    /\ items = <<>>
    /\ seq = 0
    /\ retry_handlers = {}
    /\ processing = FALSE
    /\ pq_items = <<>>
    /\ pq_idx = 0
    /\ peer = NoPeer
    /\ ret = [op |-> "none", in |-> <<>>, limit |-> 0, id |-> 0, items |-> <<>>]
    /\ ever_ids = {}
    /\ handled = <<>>
    /\ added = <<>>

InitN8n ==
    /\ conn_state = "disconnected"
    /\ ws = "none"
    /\ pending_requests = <<>>
    /\ reconnect_attempts = 0
    /\ reconnect_task = <<>>
    /\ ping_task = "none"
    /\ message_handler_task = "none"
    /\ conn_pc = [c \in ConnCallers |-> "idle"]
    /\ futures = [r \in Requests |-> "none"]
    /\ req_pc = [r \in Requests |-> "idle"]
    /\ req_id = [r \in Requests |-> <<>>]
    /\ req_out = [r \in Requests |-> "none"]
    /\ unreferenced = [ping |-> 0, msg |-> 0, reconnect |-> 0]

\* WhisperLiveKitClient.__init__.  buffer_lock is the asyncio.Lock: whether
\* it is held, and the coroutines waiting for it in order (0 is the caller
\* of send_audio, k > 0 the reconnect task k).
RTasks == 1..MaxReconnectTasks
NoTask == [pc |-> "none", i |-> 0]
InitWlk ==
    /\ wlk = [connected |-> FALSE, state |-> "idle", ws |-> "none",
              reconnect_task |-> 0, health_check_task |-> "none",
              audio_stream_task |-> "none", reconnect_attempts |-> 0,
              audio_buffer |-> <<>>,
              buffer_lock |-> [locked |-> FALSE, waiters |-> <<>>]]
    /\ rtask = [k \in RTasks |-> NoTask]
    /\ wpc = [owner |-> "idle", sender |-> "idle", n |-> 0, schedule |-> FALSE]
    /\ wire = <<>>

Init ==
    /\ InitBreaker
    /\ InitCallers
    /\ InitQueue
    /\ InitN8n
    /\ InitWlk
    /\ consec = 0
    /\ lastOp = NoOp
    /\ now = 0

\* ---------------------------------------------------------- CircuitBreaker

ShouldAttemptReset_IgnoreTimeout ==
    /\ state = "open"
    /\ last_failure_time # None

ShouldAttemptReset ==
    /\ state = "open"
    /\ last_failure_time # None
    /\ now - last_failure_time >= RecoveryTimeout

ChangeState(new_state) ==
    /\ state' = new_state
    /\ state_changes' = Append(state_changes,
           [from |-> state, to |-> new_state, timestamp |-> now])

RecordSuccess_KeepCount ==
    /\ success_count' = success_count + 1
    /\ total_calls' = total_calls + 1
    /\ last_success_time' = now
    /\ IF state = "half_open"
       THEN ChangeState("closed") /\ UNCHANGED failure_count
       ELSE UNCHANGED <<state, state_changes, failure_count>>
    /\ UNCHANGED last_failure_time

RecordSuccess ==
    /\ success_count' = success_count + 1
    /\ total_calls' = total_calls + 1
    /\ last_success_time' = now
    /\ IF state = "half_open"
       THEN ChangeState("closed") /\ failure_count' = 0
       ELSE UNCHANGED <<state, state_changes, failure_count>>
    /\ UNCHANGED last_failure_time

RecordFailure_TotalNotCounted ==
    /\ failure_count' = failure_count + 1
    /\ last_failure_time' = now
    /\ IF state = "half_open"
       THEN ChangeState("open")
       ELSE IF state = "closed" /\ failure_count + 1 >= FailureThreshold
            THEN ChangeState("open")
            ELSE UNCHANGED <<state, state_changes>>
    /\ UNCHANGED <<success_count, total_calls, last_success_time>>

RecordFailure ==
    /\ failure_count' = failure_count + 1
    /\ total_calls' = total_calls + 1
    /\ last_failure_time' = now
    /\ IF state = "half_open"
       THEN ChangeState("open")
       ELSE IF state = "closed" /\ failure_count + 1 >= FailureThreshold
            THEN ChangeState("open")
            ELSE UNCHANGED <<state, state_changes>>
    /\ UNCHANGED <<success_count, last_success_time>>

\* An exception that is not an instance of config.expected_exception: no
\* except clause runs, only the finally block.
RecordNothing_AsFailure == RecordFailure

RecordNothing ==
    UNCHANGED <<state, state_changes, failure_count, success_count,
                total_calls, last_failure_time, last_success_time>>

\* call(), lines 143-162, on the breaker and its caller: the reset check,
\* the state check, and the invocation of func (which suspends the caller).
\* The call is rejected with CircuitOpenError exactly when the state is Open
\* after the reset check.
CallBeginCore(c) ==
    /\ pc[c] = "idle"
    /\ ncalls < MaxCalls
    /\ ncalls' = ncalls + 1
    /\ LET attempt == ShouldAttemptReset
           trans == attempt /\ state = "open" /\ ~half_open_test_in_progress
       IN  /\ IF trans
              THEN /\ ChangeState("half_open")
                   /\ half_open_test_in_progress' = TRUE
              ELSE UNCHANGED <<state, state_changes, half_open_test_in_progress>>
           /\ IF state' = "open"
              THEN UNCHANGED <<pc, startedIn, isProbe>>
              ELSE /\ pc' = [pc EXCEPT ![c] = "running"]
                   /\ startedIn' = [startedIn EXCEPT ![c] = state']
                   /\ isProbe' = [isProbe EXCEPT ![c] = trans]
    /\ UNCHANGED <<failure_count, success_count, total_calls,
                   last_failure_time, last_success_time, consec>>

CallBegin(c) ==
    /\ CallBeginCore(c)
    /\ lastOp' = [op |-> "call_begin", c |-> c,
                  out |-> IF state' = "open" THEN "CircuitOpenError" ELSE "invoked"]
    /\ UNCHANGED <<now, qVars, n8nVars, wlkVars>>

\* call(), lines 164-172, on the breaker and its caller: func's outcome, the
\* bookkeeping and the finally block.
CallEndCore(c, outcome) ==
    /\ pc[c] = "running"
    /\ CASE outcome = "success" -> RecordSuccess
         [] outcome = "failure" -> RecordFailure
         [] OTHER -> RecordNothing
    /\ half_open_test_in_progress' =
           IF state' = "half_open" THEN FALSE ELSE half_open_test_in_progress
    /\ pc' = [pc EXCEPT ![c] = "idle"]
    /\ consec' = CASE outcome = "success" -> 0
                   [] outcome = "failure" -> consec + 1
                   [] OTHER -> consec
    /\ UNCHANGED <<startedIn, isProbe, ncalls>>

CallEnd(c, outcome) ==
    /\ CallEndCore(c, outcome)
    /\ lastOp' = [op |-> "call_end", c |-> c, out |-> outcome]
    /\ UNCHANGED <<now, qVars, n8nVars, wlkVars>>

Reset_KeepStats ==
    /\ state' = "closed"
    /\ state_changes' = <<>>
    /\ UNCHANGED <<failure_count, success_count, total_calls,
                   last_failure_time, last_success_time>>

Reset ==
    /\ state' = "closed"
    /\ failure_count' = 0
    /\ success_count' = 0
    /\ total_calls' = 0
    /\ last_failure_time' = None
    /\ last_success_time' = None
    /\ state_changes' = <<>>

ResetCall ==
    /\ Reset
    /\ consec' = 0
    /\ lastOp' = [op |-> "reset", c |-> 0, out |-> "none"]
    /\ UNCHANGED <<half_open_test_in_progress, callerVars, now, qVars, n8nVars, wlkVars>>

Tick ==
    /\ now < MaxTime
    /\ now' = now + 1
    /\ lastOp' = [op |-> "tick", c |-> 0, out |-> "none"]
    /\ UNCHANGED <<cbVars, callerVars, consec, qVars, n8nVars, wlkVars>>

NextBreaker ==
    \/ \E c \in Callers : CallBegin(c)
    \/ \E c \in Callers, o \in Outcomes : CallEnd(c, o)
    \/ ResetCall
    \/ Tick

SpecBreaker == Init /\ [][NextBreaker]_vars

\* ------------------------------------------------------------ OfflineQueue

Statuses == {"pending", "processing", "completed", "failed", "expired"}
Services == {"n8n", "tts"}
\* The one service the repository registers a retry handler for.
HandlerServices == {"n8n"}

\* Python values are <<"py", v>>, the TEXT a column holds is <<"json", v>>,
\* and a NULL column is <<"null">>.
PyNone == <<"py", "None">>
Null == <<"null">>
JsonDumps(v) == <<"json", v[2]>>
JsonLoads(t) == <<"py", t[2]>>
Falsy(v) == v \in {PyNone, <<"py", "{}">>, Null}

\* The arguments add_item is called with.
AddInputs ==
    { [service_name |-> "n8n", method_name |-> "process_transcription",
       payload |-> <<"py", "{text:hello}">>, max_retries |-> 2, metadata |-> PyNone],
      [service_name |-> "n8n", method_name |-> "health_check",
       payload |-> <<"py", "{}">>, max_retries |-> 1, metadata |-> <<"py", "{}">>],
      [service_name |-> "tts", method_name |-> "speak",
       payload |-> <<"py", "{text:bye}">>, max_retries |-> 0,
       metadata |-> <<"py", "{source:voice}">>] }

Limits == {1, DefaultLimit}
ClearArgs == {"all", "completed"}

Min(a, b) == IF a <= b THEN a ELSE b

RECURSIVE Pow2(_)
Pow2(n) == IF n = 0 THEN 1 ELSE 2 * Pow2(n - 1)

Ids(its) == DOMAIN its

GetQueueSize(its) == Cardinality(Ids(its))

\* DELETE ... WHERE status IN (completed, failed) AND updated_at < cutoff
CleanupOldItems_AnyStatus(its, t) ==
    LET cutoff == t - KeepSeconds
        keep == {i \in Ids(its) : ~(its[i].updated_at < cutoff)}
    IN  [i \in keep |-> its[i]]

CleanupOldItems(its, t) ==
    LET cutoff == t - KeepSeconds
        keep == {i \in Ids(its) :
                    ~(its[i].status \in {"completed", "failed"}
                      /\ its[i].updated_at < cutoff)}
    IN  [i \in keep |-> its[i]]

\* The row add_item inserts.
NewRow(id, in, t) ==
    [id |-> id,
     service_name |-> in.service_name,
     method_name |-> in.method_name,
     payload |-> JsonDumps(in.payload),
     status |-> "pending",
     retry_count |-> 0,
     max_retries |-> in.max_retries,
     created_at |-> t,
     updated_at |-> t,
     next_retry_at |-> t,
     error_message |-> "NULL",
     metadata |-> IF Falsy(in.metadata) THEN Null ELSE JsonDumps(in.metadata)]

\* cursor.lastrowid of the INSERT: with AUTOINCREMENT, one more than the
\* largest id the table ever held (sqlite_sequence), also after deletes.
Max(S) == CHOOSE x \in S : \A y \in S : y <= x

LastRowId_MaxPlusOne(its, sq) ==
    IF Ids(its) = {} THEN 1 ELSE Max(Ids(its)) + 1

LastRowId(its, sq) == sq + 1

Insert(its, row) ==
    [i \in Ids(its) \cup {row.id} |-> IF i = row.id THEN row ELSE its[i]]

\* The QueueItem get_pending_items builds from a row.
RowToItem_RawPayload(row) ==
    [row EXCEPT !.metadata = IF Falsy(row.metadata) THEN PyNone
                             ELSE JsonLoads(row.metadata)]

RowToItem(row) ==
    [row EXCEPT !.payload = JsonLoads(row.payload),
                !.metadata = IF Falsy(row.metadata) THEN PyNone
                             ELSE JsonLoads(row.metadata)]

\* WHERE status = 'pending' AND (next_retry_at IS NULL OR next_retry_at <= now)
Eligible_AnyTime(its, t) ==
    {i \in Ids(its) : its[i].status = "pending"}

Eligible_WithFailed(its, t) ==
    {i \in Ids(its) :
        /\ its[i].status \in {"pending", "failed"}
        /\ (its[i].next_retry_at = None \/ its[i].next_retry_at <= t)}

Eligible(its, t) ==
    {i \in Ids(its) :
        /\ its[i].status = "pending"
        /\ (its[i].next_retry_at = None \/ its[i].next_retry_at <= t)}

\* ORDER BY created_at ASC LIMIT n: the rows in ascending created_at, cut to
\* the first n.  SQL leaves the order of rows with equal created_at open, so
\* this is the set of the lists the query may return.
RECURSIVE OrderByCreatedLimit(_, _, _)
OrderByCreatedLimit(its, S, n) ==
    IF n = 0 \/ S = {}
    THEN {<<>>}
    ELSE LET first == {i \in S : \A j \in S : its[i].created_at <= its[j].created_at}
         IN  UNION {{<<i>> \o rest : rest \in OrderByCreatedLimit(its, S \ {i}, n - 1)}
                      : i \in first}

\* The lists get_pending_items(limit) may return at time t.
GetPendingItems(its, t, limit) ==
    {[k \in 1..Len(ids) |-> RowToItem(its[ids[k]])] :
        ids \in OrderByCreatedLimit(its, Eligible(its, t), limit)}

\* update_item_status(item_id, status, error_message) at time t.
UpdateItemStatus_Uncapped(its, id, status, err, t) ==
    IF id \notin Ids(its)
    THEN its
    ELSE IF status = "failed"
         THEN IF its[id].retry_count < its[id].max_retries
              THEN [its EXCEPT ![id].status = "pending",
                               ![id].retry_count = its[id].retry_count + 1,
                               ![id].next_retry_at = t + Pow2(its[id].retry_count),
                               ![id].error_message = err,
                               ![id].updated_at = t]
              ELSE [its EXCEPT ![id].status = "failed",
                               ![id].error_message = err,
                               ![id].updated_at = t]
         ELSE [its EXCEPT ![id].status = status,
                          ![id].error_message = err,
                          ![id].updated_at = t]

UpdateItemStatus_RetryAtLimit(its, id, status, err, t) ==
    IF id \notin Ids(its)
    THEN its
    ELSE IF status = "failed"
         THEN IF its[id].retry_count <= its[id].max_retries
              THEN [its EXCEPT ![id].status = "pending",
                               ![id].retry_count = its[id].retry_count + 1,
                               ![id].next_retry_at =
                                   t + Min(Pow2(its[id].retry_count), BackoffCap),
                               ![id].error_message = err,
                               ![id].updated_at = t]
              ELSE [its EXCEPT ![id].status = "failed",
                               ![id].error_message = err,
                               ![id].updated_at = t]
         ELSE [its EXCEPT ![id].status = status,
                          ![id].error_message = err,
                          ![id].updated_at = t]

UpdateItemStatus_CountsEveryUpdate(its, id, status, err, t) ==
    IF id \notin Ids(its)
    THEN its
    ELSE IF status = "failed"
         THEN IF its[id].retry_count < its[id].max_retries
              THEN [its EXCEPT ![id].status = "pending",
                               ![id].retry_count = its[id].retry_count + 1,
                               ![id].next_retry_at =
                                   t + Min(Pow2(its[id].retry_count), BackoffCap),
                               ![id].error_message = err,
                               ![id].updated_at = t]
              ELSE [its EXCEPT ![id].status = "failed",
                               ![id].error_message = err,
                               ![id].updated_at = t]
         ELSE [its EXCEPT ![id].status = status,
                          ![id].retry_count = its[id].retry_count + 1,
                          ![id].error_message = err,
                          ![id].updated_at = t]

UpdateItemStatus(its, id, status, err, t) ==
    IF id \notin Ids(its)
    THEN its
    ELSE IF status = "failed"
         THEN IF its[id].retry_count < its[id].max_retries
              THEN [its EXCEPT ![id].status = "pending",
                               ![id].retry_count = its[id].retry_count + 1,
                               ![id].next_retry_at =
                                   t + Min(Pow2(its[id].retry_count), BackoffCap),
                               ![id].error_message = err,
                               ![id].updated_at = t]
              ELSE [its EXCEPT ![id].status = "failed",
                               ![id].error_message = err,
                               ![id].updated_at = t]
         ELSE [its EXCEPT ![id].status = status,
                          ![id].error_message = err,
                          ![id].updated_at = t]

\* process_queue's for loop from list[k] on, up to its next suspension: each
\* item is marked processing; one whose service has no handler is marked
\* failed and the loop goes on; at the first item with a handler the run
\* suspends in `await handler(...)`.  The result is the table and the index
\* of the item whose handler is awaited (0 when the list is exhausted).
RECURSIVE RunLoop(_, _, _, _, _)
RunLoop(its, list, k, hs, t) ==
    IF k > Len(list)
    THEN [items |-> its, idx |-> 0]
    ELSE LET it == list[k]
             its1 == UpdateItemStatus(its, it.id, "processing", "NULL", t)
         IN  IF it.service_name \notin hs
             THEN RunLoop(UpdateItemStatus(its1, it.id, "failed", "No handler", t),
                          list, k + 1, hs, t)
             ELSE [items |-> its1, idx |-> k]

\* The handler invocation process_queue suspends in, item list[k]:
\* `await handler(item.method_name, item.payload, item.metadata)`.
Invoke(h, list, k) ==
    IF k = 0
    THEN h
    ELSE [h EXCEPT ![list[k].id] =
              Append(@, [method_name |-> list[k].method_name,
                         payload |-> list[k].payload,
                         metadata |-> list[k].metadata])]

NoRet == [op |-> "none", in |-> <<>>, limit |-> 0, id |-> 0, items |-> <<>>]

\* add_item(service_name, method_name, payload, max_retries, metadata) on
\* the queue.
AddItemCore(in) ==
    LET its1 == IF GetQueueSize(items) >= MaxItems
                THEN CleanupOldItems(items, now)
                ELSE items
        row == NewRow(LastRowId(its1, seq), in, now)
    IN  /\ items' = Insert(its1, row)
        /\ seq' = row.id
        /\ ever_ids' = ever_ids \cup {row.id}
        /\ handled' = [i \in DOMAIN handled \cup {row.id} |->
                          IF i \in DOMAIN handled THEN handled[i] ELSE <<>>]
        /\ added' = [i \in DOMAIN added \cup {row.id} |->
                        IF i \in DOMAIN added THEN added[i] ELSE in]
        /\ ret' = [op |-> "add_item", in |-> <<in>>, limit |-> 0,
                    id |-> row.id, items |-> <<>>]

AddItem(in) ==
    /\ seq < MaxAdds
    /\ AddItemCore(in)
    /\ UNCHANGED lastOp
    /\ UNCHANGED <<retry_handlers, processing, pq_items, pq_idx, peer>>
    /\ UNCHANGED <<cbVars, callerVars, consec, now, n8nVars, wlkVars>>

\* get_pending_items(limit), called from outside process_queue
GetPending(limit) ==
    /\ \E list \in GetPendingItems(items, now, limit) :
          ret' = [op |-> "get_pending_items", in |-> <<>>, limit |-> limit,
                  id |-> 0, items |-> list]
    /\ UNCHANGED lastOp
    /\ UNCHANGED <<items, seq, retry_handlers, processing, pq_items, pq_idx, peer,
                   ever_ids, handled, added>>
    /\ UNCHANGED <<cbVars, callerVars, consec, now, n8nVars, wlkVars>>

\* register_retry_handler(service_name, handler)
RegisterRetryHandler(s) ==
    /\ retry_handlers' = retry_handlers \cup {s}
    /\ UNCHANGED lastOp
    /\ ret' = NoRet
    /\ UNCHANGED <<items, seq, processing, pq_items, pq_idx, peer, ever_ids, handled, added>>
    /\ UNCHANGED <<cbVars, callerVars, consec, now, n8nVars, wlkVars>>

\* process_queue(), called while no run is in progress: from the guard to the
\* first `await handler(...)`, or to the end when no handler is awaited.
ProcessQueueStart_NoGuard ==
    /\ \E list \in GetPendingItems(items, now, DefaultLimit) :
          LET r == RunLoop(items, list, 1, retry_handlers, now)
          IN  /\ items' = r.items
              /\ pq_idx' = r.idx
              /\ pq_items' = IF r.idx = 0 THEN <<>> ELSE list
              /\ processing' = (r.idx # 0)
              /\ handled' = Invoke(handled, list, r.idx)
    /\ UNCHANGED lastOp
    /\ ret' = NoRet
    /\ UNCHANGED <<seq, retry_handlers, ever_ids, added, peer>>
    /\ UNCHANGED <<cbVars, callerVars, consec, now, n8nVars, wlkVars>>

ProcessQueueStart ==
    /\ ~processing
    /\ \E list \in GetPendingItems(items, now, DefaultLimit) :
          LET r == RunLoop(items, list, 1, retry_handlers, now)
          IN  /\ items' = r.items
              /\ pq_idx' = r.idx
              /\ pq_items' = IF r.idx = 0 THEN <<>> ELSE list
              /\ processing' = (r.idx # 0)
              /\ handled' = Invoke(handled, list, r.idx)
    /\ UNCHANGED lastOp
    /\ ret' = NoRet
    /\ UNCHANGED <<seq, retry_handlers, ever_ids, added, peer>>
    /\ UNCHANGED <<cbVars, callerVars, consec, now, n8nVars, wlkVars>>

\* process_queue(), called while a run is in progress: returns at once.
ProcessQueueBusy ==
    /\ processing
    /\ UNCHANGED lastOp
    /\ ret' = NoRet
    /\ UNCHANGED <<items, seq, retry_handlers, processing, pq_items, pq_idx, peer,
                   ever_ids, handled, added>>
    /\ UNCHANGED <<cbVars, callerVars, consec, now, n8nVars, wlkVars>>

\* How `await handler(...)` ends: the handler returns (ok), raises an
\* Exception (error), or the task running process_queue is cancelled while it
\* waits (cancelled: asyncio.CancelledError, which is not an Exception).
HandlerOutcomes == {"ok", "error", "cancelled"}

\* The awaited handler returns (ok) or raises an Exception (error): the item
\* is marked completed or failed, and the loop runs on to its next suspension
\* or to the end, where the finally block clears _processing.  On cancelled
\* neither except clause matches: the error leaves process_queue through the
\* finally block, and the item stays as the run marked it.
HandlerDone(outcome) ==
    /\ processing
    /\ pq_idx # 0
    /\ LET it == pq_items[pq_idx]
           its1 == IF outcome = "ok"
                   THEN UpdateItemStatus(items, it.id, "completed", "NULL", now)
                   ELSE UpdateItemStatus(items, it.id, "failed", "handler error", now)
           r == IF outcome = "cancelled"
                THEN [items |-> items, idx |-> 0]
                ELSE RunLoop(its1, pq_items, pq_idx + 1, retry_handlers, now)
       IN  /\ items' = r.items
           /\ pq_idx' = r.idx
           /\ pq_items' = IF r.idx = 0 THEN <<>> ELSE pq_items
           /\ processing' = (r.idx # 0)
           /\ handled' = Invoke(handled, pq_items, r.idx)
    /\ UNCHANGED lastOp
    /\ ret' = NoRet
    /\ UNCHANGED <<seq, retry_handlers, ever_ids, added, peer>>
    /\ UNCHANGED <<cbVars, callerVars, consec, now, n8nVars, wlkVars>>

\* clear_queue(status): status "all" stands for None.
ClearQueue(status) ==
    /\ LET keep == IF status = "all" THEN {}
                   ELSE {i \in Ids(items) : items[i].status # status}
       IN  items' = [i \in keep |-> items[i]]
    /\ UNCHANGED lastOp
    /\ ret' = NoRet
    /\ UNCHANGED <<seq, retry_handlers, processing, pq_items, pq_idx, peer, ever_ids,
                   handled, added>>
    /\ UNCHANGED <<cbVars, callerVars, consec, now, n8nVars, wlkVars>>

QTick ==
    /\ now < MaxTime
    /\ now' = now + 1
    /\ ret' = NoRet
    /\ UNCHANGED <<items, seq, retry_handlers, processing, pq_items, pq_idx, peer,
                   ever_ids, handled, added>>
    /\ UNCHANGED <<cbVars, callerVars, consec, lastOp, n8nVars, wlkVars>>

NextQueue ==
    \/ \E in \in AddInputs : AddItem(in)
    \/ \E limit \in Limits : GetPending(limit)
    \/ \E s \in HandlerServices : RegisterRetryHandler(s)
    \/ ProcessQueueStart
    \/ ProcessQueueBusy
    \/ \E o \in HandlerOutcomes : HandlerDone(o)
    \/ \E st \in ClearArgs : ClearQueue(st)
    \/ QTick

SpecQueue == Init /\ [][NextQueue]_vars

\* ------------------------------------------- OfflineQueue at capacity
\* The queue over a span of time longer than the retention window of
\* _cleanup_old_items: the clock may jump ahead by the window once.

LongTick ==
    /\ now < KeepSeconds
    /\ now' = now + KeepSeconds
    /\ ret' = NoRet
    /\ UNCHANGED <<items, seq, retry_handlers, processing, pq_items, pq_idx, peer,
                   ever_ids, handled, added>>
    /\ UNCHANGED <<cbVars, callerVars, consec, lastOp, n8nVars, wlkVars>>

NextCapacity ==
    \/ \E in \in AddInputs : AddItem(in)
    \/ \E s \in HandlerServices : RegisterRetryHandler(s)
    \/ ProcessQueueStart
    \/ ProcessQueueBusy
    \/ \E o \in HandlerOutcomes : HandlerDone(o)
    \/ QTick
    \/ LongTick

SpecCapacity == Init /\ [][NextCapacity]_vars

\* ------------------------------------------------------------- N8nClient
\* The WebSocket side of integrations/n8n_client.py, configured with a
\* websocket_url.  One event loop: every action is the code from one
\* suspension (await) to the next.  ws is "none" (self.ws is None), "open",
\* "closing" (the connection is going down: ws.closed is still False, send
\* and ping raise ConnectionClosed) or "closed" (ws.closed, recv raises
\* ConnectionClosed).  A task is "none", "created" (not yet run), "live"
\* (suspended inside its loop) or "ended" (returned, failed or cancelled).
\* A future is "none", "pending", "result", "exception" or "cancelled".

Method == "process_prompt"

\* request_id = f"{time.time()}_{method}"
RequestId(t, method) == <<t, method>>

\* The ids a response frame may carry: those of the requests made.
ResponseIds == {RequestId(t, Method) : t \in 0..MaxStamp}

\* _pending_requests is a dict: entries in insertion order; assigning to a
\* key it holds replaces the value in place.
DictHas(d, id) == \E k \in DOMAIN d : d[k].id = id
DictGet(d, id) == d[CHOOSE k \in DOMAIN d : d[k].id = id].fut
DictSet(d, id, r) ==
    IF DictHas(d, id)
    THEN [k \in DOMAIN d |-> IF d[k].id = id THEN [id |-> id, fut |-> r] ELSE d[k]]
    ELSE Append(d, [id |-> id, fut |-> r])
DictPop(d, id) == SelectSeq(d, LAMBDA e : e.id # id)

N8nOp(name, out) == [op |-> name, c |-> 0, out |-> out]

\* As ScheduleReconnect, but every reconnect waits reconnect_interval.
ScheduleReconnect_FixedDelay(st, attempts, task) ==
    IF task # <<>>
    THEN [state |-> st, attempts |-> attempts, task |-> task, started |-> FALSE]
    ELSE IF attempts >= MaxReconnectAttempts
         THEN [state |-> "failed", attempts |-> attempts, task |-> task,
               started |-> FALSE]
         ELSE [state |-> st, attempts |-> attempts + 1,
               task |-> <<ReconnectInterval>>, started |-> TRUE]

\* _schedule_reconnect(), entered with self.state = st: the state, the
\* attempt counter and _reconnect_task it leaves, and whether it created the
\* reconnect task.  _reconnect_task is <<>> (None) or <<delay>>, the task
\* created with asyncio.create_task(self._reconnect(delay)).
ScheduleReconnect(st, attempts, task) ==
    IF task # <<>>
    THEN [state |-> st, attempts |-> attempts, task |-> task, started |-> FALSE]
    ELSE IF attempts >= MaxReconnectAttempts
         THEN [state |-> "failed", attempts |-> attempts, task |-> task,
               started |-> FALSE]
         ELSE [state |-> st, attempts |-> attempts + 1,
               task |-> <<ReconnectInterval * (attempts + 1)>>, started |-> TRUE]

\* The count of unreferenced reconnect tasks after a _schedule_reconnect()
\* with outcome sr: a task it created while _reconnect_task still pointed
\* to one leaves that one unreferenced.
AfterSchedule(unref, sr, task) ==
    [unref EXCEPT !.reconnect = @ + IF sr.started /\ task # <<>> THEN 1 ELSE 0]

\* As StartBackgroundTask, but the task that was referenced is not
\* cancelled.
StartBackgroundTask_NoCancel(task) ==
    [old |-> task, new |-> "created"]

\* _start_background_tasks() for one of the two loops: the task that was
\* referenced, cancelled when there was one, and the task created.
StartBackgroundTask(task) ==
    [old |-> IF task = "none" THEN "none" ELSE "ended", new |-> "created"]

NotEnded(task) == task \in {"created", "live"}

\* task.cancel() on a task reference that may be None.
Cancel(task) == IF task = "none" THEN "none" ELSE "ended"

\* `for future in self._pending_requests.values(): future.set_exception(...)`
\* from entry k on.  set_exception on a future that is already done raises
\* InvalidStateError, which ends the loop there.
RECURSIVE FailPending(_, _, _)
FailPending(d, k, futs) ==
    IF k > Len(d)
    THEN [futures |-> futs, raised |-> FALSE]
    ELSE IF futs[d[k].fut] # "pending"
         THEN [futures |-> futs, raised |-> TRUE]
         ELSE FailPending(d, k + 1, [futs EXCEPT ![d[k].fut] = "exception"])

\* _handle_disconnect(), called by the loop `who`; it has no await.  When
\* set_exception raises, the error leaves _handle_disconnect before the map
\* is cleared and before _schedule_reconnect.  Either way the calling loop
\* ends: by its `break`, or by the error.
HandleDisconnect(who) ==
    LET fp == FailPending(pending_requests, 1, futures)
        sr == ScheduleReconnect("disconnected", reconnect_attempts, reconnect_task)
    IN  /\ ping_task' = Cancel(ping_task)
        /\ message_handler_task' = Cancel(message_handler_task)
        /\ futures' = fp.futures
        /\ IF fp.raised
           THEN /\ conn_state' = "disconnected"
                /\ UNCHANGED <<pending_requests, reconnect_attempts, reconnect_task,
                               conn_pc, unreferenced>>
           ELSE /\ pending_requests' = <<>>
                /\ unreferenced' = AfterSchedule(unreferenced, sr, reconnect_task)
                /\ conn_state' = sr.state
                /\ reconnect_attempts' = sr.attempts
                /\ reconnect_task' = sr.task
                /\ conn_pc' = IF sr.started
                              THEN [conn_pc EXCEPT !["reconnect"] = "sleeping"]
                              ELSE conn_pc
        /\ lastOp' = N8nOp(who, IF fp.raised THEN "raised" ELSE "returned")

\* connect() by the owner, or the reconnect task waking from its sleep
\* (which sets RECONNECTING and calls connect()): up to
\* `await websockets.connect(...)`.
ConnectBegin(c) ==
    /\ conn_pc[c] = IF c = "reconnect" THEN "sleeping" ELSE "idle"
    /\ IF c = "owner" /\ conn_state = "connected"
       THEN UNCHANGED <<conn_state, conn_pc>>
       ELSE /\ conn_state' = "connecting"
            /\ conn_pc' = [conn_pc EXCEPT ![c] = "connecting"]
    /\ lastOp' = N8nOp("step", "none")
    /\ UNCHANGED <<ws, pending_requests, reconnect_attempts, reconnect_task,
                   ping_task, message_handler_task, futures, req_pc, req_id, req_out>>
    /\ UNCHANGED <<cbVars, callerVars, consec, now, qVars, wlkVars, unreferenced>>

\* The except clause of connect(): FAILED, _schedule_reconnect(), return
\* False; the reconnect task then clears _reconnect_task and ends.
ConnectFailed(c) ==
    LET sr == ScheduleReconnect("failed", reconnect_attempts, reconnect_task)
    IN  /\ conn_state' = sr.state
        /\ reconnect_attempts' = sr.attempts
        /\ reconnect_task' = IF c = "reconnect" THEN <<>> ELSE sr.task
        /\ unreferenced' = AfterSchedule(unreferenced, sr, reconnect_task)
        /\ conn_pc' = [k \in ConnCallers |->
                         IF k = c THEN "idle"
                         ELSE IF sr.started THEN "sleeping" ELSE conn_pc[k]]

\* websockets.connect returns or raises.  On success _connect_websocket
\* stores the socket, sets CONNECTED, zeroes the attempt counter, replaces
\* the two loops (_start_background_tasks) and suspends sending the
\* handshake; lastOp tells whether a loop that had not ended was replaced.
ConnectWsDone(c, ok) ==
    /\ conn_pc[c] = "connecting"
    /\ IF ok
       THEN /\ ws' = "open"
            /\ conn_state' = "connected"
            /\ reconnect_attempts' = 0
            /\ ping_task' = StartBackgroundTask(ping_task).new
            /\ message_handler_task' = StartBackgroundTask(message_handler_task).new
            /\ unreferenced' =
                 [unreferenced EXCEPT
                    !.ping = @ + IF NotEnded(StartBackgroundTask(ping_task).old)
                                 THEN 1 ELSE 0,
                    !.msg = @ + IF NotEnded(StartBackgroundTask(message_handler_task).old)
                                THEN 1 ELSE 0]
            /\ conn_pc' = [conn_pc EXCEPT ![c] = "handshake"]
            /\ UNCHANGED reconnect_task
       ELSE /\ ConnectFailed(c)
            /\ UNCHANGED <<ws, ping_task, message_handler_task>>
    /\ lastOp' = IF ok
                 THEN N8nOp("start_background_tasks",
                            IF NotEnded(ping_task) \/ NotEnded(message_handler_task)
                            THEN "replaced" ELSE "started")
                 ELSE N8nOp("step", "none")
    /\ UNCHANGED <<pending_requests, futures, req_pc, req_id, req_out>>
    /\ UNCHANGED <<cbVars, callerVars, consec, now, qVars, wlkVars>>

\* The send of the handshake returns, or raises because the socket is no
\* longer open.
HandshakeDone(c) ==
    /\ conn_pc[c] = "handshake"
    /\ IF ws = "open"
       THEN /\ conn_pc' = [conn_pc EXCEPT ![c] = "idle"]
            /\ reconnect_task' = IF c = "reconnect" THEN <<>> ELSE reconnect_task
            /\ UNCHANGED <<conn_state, reconnect_attempts, unreferenced>>
       ELSE ConnectFailed(c)
    /\ lastOp' = N8nOp("step", "none")
    /\ UNCHANGED <<ws, pending_requests, ping_task, message_handler_task, futures,
                   req_pc, req_id, req_out>>
    /\ UNCHANGED <<cbVars, callerVars, consec, now, qVars, wlkVars>>

\* The loop condition `self.state == CONNECTED and self.ws`.
LoopGoesOn == conn_state = "connected" /\ ws # "none"

\* A loop task runs for the first time.
LoopStart ==
    /\ \/ /\ ping_task = "created"
          /\ ping_task' = IF LoopGoesOn THEN "live" ELSE "ended"
          /\ UNCHANGED message_handler_task
       \/ /\ message_handler_task = "created"
          /\ message_handler_task' = IF LoopGoesOn THEN "live" ELSE "ended"
          /\ UNCHANGED ping_task
    /\ lastOp' = N8nOp("step", "none")
    /\ UNCHANGED <<conn_state, ws, pending_requests, reconnect_attempts,
                   reconnect_task, conn_pc, futures, req_pc, req_id, req_out>>
    /\ UNCHANGED <<cbVars, callerVars, consec, now, qVars, wlkVars, unreferenced>>

\* _ping_loop wakes from its sleep: it pings an open socket; a socket that
\* is closing makes ping raise, which is handled as a disconnect; otherwise
\* the loop condition is tested again.
PingRound ==
    /\ ping_task = "live"
    /\ IF ws = "closing"
       THEN HandleDisconnect("ping_loop")
       ELSE /\ ping_task' = IF LoopGoesOn THEN "live" ELSE "ended"
            /\ lastOp' = N8nOp("step", "none")
            /\ UNCHANGED <<conn_state, pending_requests, reconnect_attempts,
                           reconnect_task, message_handler_task, conn_pc, futures,
                           unreferenced>>
    /\ UNCHANGED <<ws, req_pc, req_id, req_out>>
    /\ UNCHANGED <<cbVars, callerVars, consec, now, qVars, wlkVars>>

\* _message_handler_loop receives a response frame carrying `id`
\* (_handle_message, _handle_response): a known id is popped and its future
\* resolved; set_result on a future that is already done raises, which the
\* loop logs.  Then the loop condition is tested again.
MsgResponse(id) ==
    /\ message_handler_task = "live"
    /\ ws = "open"
    /\ IF DictHas(pending_requests, id)
       THEN LET r == DictGet(pending_requests, id)
            IN  /\ pending_requests' = DictPop(pending_requests, id)
                /\ futures' = IF futures[r] = "pending"
                              THEN [futures EXCEPT ![r] = "result"]
                              ELSE futures
       ELSE UNCHANGED <<pending_requests, futures>>
    /\ message_handler_task' = IF LoopGoesOn THEN "live" ELSE "ended"
    /\ lastOp' = IF DictHas(pending_requests, id)
                 THEN N8nOp("step", "none")
                 ELSE N8nOp("frame", "unmatched_response")
    /\ UNCHANGED <<conn_state, ws, reconnect_attempts, reconnect_task, ping_task,
                   conn_pc, req_pc, req_id, req_out>>
    /\ UNCHANGED <<cbVars, callerVars, consec, now, qVars, wlkVars, unreferenced>>

\* The frames _handle_message delivers nowhere: an event frame (the client
\* registers no event handler of its own, so _message_handlers.get finds
\* none), an error frame, a frame of another type, and a text that is not
\* JSON.
UndeliveredFrames == {"event", "error", "unknown", "invalid_json"}

\* As LoopAfterFrame, but the JSONDecodeError leaves the loop.
LoopAfterFrame_JsonErrorEndsLoop(kind) ==
    IF kind # "invalid_json" /\ LoopGoesOn THEN "live" ELSE "ended"

\* The inbound loop after _handle_message has returned for a frame of this
\* kind: each kind is logged, JSONDecodeError is caught in _handle_message,
\* and the loop condition is tested again.
LoopAfterFrame(kind) ==
    IF LoopGoesOn THEN "live" ELSE "ended"

\* _message_handler_loop receives a frame of one of these kinds.
MsgFrame(kind) ==
    /\ message_handler_task = "live"
    /\ ws = "open"
    /\ message_handler_task' = LoopAfterFrame(kind)
    /\ lastOp' = N8nOp("frame", kind)
    /\ UNCHANGED <<conn_state, ws, pending_requests, reconnect_attempts,
                   reconnect_task, ping_task, conn_pc, futures, req_pc, req_id,
                   req_out>>
    /\ UNCHANGED <<cbVars, callerVars, consec, now, qVars, wlkVars, unreferenced>>

\* recv raises ConnectionClosed in _message_handler_loop.
MsgClosed ==
    /\ message_handler_task = "live"
    /\ ws = "closed"
    /\ HandleDisconnect("message_handler_loop")
    /\ UNCHANGED <<ws, req_pc, req_id, req_out>>
    /\ UNCHANGED <<cbVars, callerVars, consec, now, qVars, wlkVars>>

\* The remote end or the network takes the connection down.
RemoteClose ==
    /\ ws \in {"open", "closing"}
    /\ ws' = IF ws = "open" THEN "closing" ELSE "closed"
    /\ lastOp' = N8nOp("step", "none")
    /\ UNCHANGED <<conn_state, pending_requests, reconnect_attempts, reconnect_task,
                   ping_task, message_handler_task, conn_pc, futures, req_pc, req_id,
                   req_out>>
    /\ UNCHANGED <<cbVars, callerVars, consec, now, qVars, wlkVars, unreferenced>>

\* _send_request_impl takes the WebSocket branch (self.ws set and not closed)
\* and _send_ws_request runs up to `await self.ws.send(...)`: the future is
\* created and stored under the request id.
SendWsRequest(r) ==
    /\ req_pc[r] = "idle"
    /\ ws \in {"open", "closing"}
    /\ req_id' = [req_id EXCEPT ![r] = RequestId(now, Method)]
    /\ futures' = [futures EXCEPT ![r] = "pending"]
    /\ pending_requests' = DictSet(pending_requests, RequestId(now, Method), r)
    /\ req_pc' = [req_pc EXCEPT ![r] = "sending"]
    /\ lastOp' = N8nOp("step", "none")
    /\ UNCHANGED <<conn_state, ws, reconnect_attempts, reconnect_task, ping_task,
                   message_handler_task, conn_pc, req_out>>
    /\ UNCHANGED <<cbVars, callerVars, consec, now, qVars, wlkVars, unreferenced>>

\* ws.send returns and the caller goes on to wait_for(future, timeout), or
\* ws.send raises and the error leaves _send_ws_request.
SendDone(r) ==
    /\ req_pc[r] = "sending"
    /\ IF ws = "open"
       THEN /\ req_pc' = [req_pc EXCEPT ![r] = "waiting"]
            /\ UNCHANGED <<req_out, req_id>>
       ELSE /\ req_pc' = [req_pc EXCEPT ![r] = "done"]
            /\ req_out' = [req_out EXCEPT ![r] = "send_error"]
            /\ req_id' = [req_id EXCEPT ![r] = <<>>]
    /\ lastOp' = N8nOp("step", "none")
    /\ UNCHANGED <<conn_state, ws, pending_requests, reconnect_attempts,
                   reconnect_task, ping_task, message_handler_task, conn_pc, futures>>
    /\ UNCHANGED <<cbVars, callerVars, consec, now, qVars, wlkVars, unreferenced>>

\* wait_for returns the future's result or raises its exception.
RequestReturn(r) ==
    /\ req_pc[r] = "waiting"
    /\ futures[r] \in {"result", "exception"}
    /\ req_pc' = [req_pc EXCEPT ![r] = "done"]
    /\ req_out' = [req_out EXCEPT ![r] = IF futures[r] = "result" THEN "response"
                                         ELSE "connection_error"]
    /\ req_id' = [req_id EXCEPT ![r] = <<>>]
    /\ lastOp' = N8nOp("step", "none")
    /\ UNCHANGED <<conn_state, ws, pending_requests, reconnect_attempts,
                   reconnect_task, ping_task, message_handler_task, conn_pc, futures>>
    /\ UNCHANGED <<cbVars, callerVars, consec, now, qVars, wlkVars, unreferenced>>

\* request_timeout has passed since the request was made: wait_for cancels
\* the future and suspends until the cancellation has gone through.
TimeoutFire(r) ==
    /\ req_pc[r] = "waiting"
    /\ futures[r] = "pending"
    /\ now > req_id[r][1]
    /\ futures' = [futures EXCEPT ![r] = "cancelled"]
    /\ req_pc' = [req_pc EXCEPT ![r] = "timing_out"]
    /\ lastOp' = N8nOp("step", "none")
    /\ UNCHANGED <<conn_state, ws, pending_requests, reconnect_attempts,
                   reconnect_task, ping_task, message_handler_task, conn_pc, req_id,
                   req_out>>
    /\ UNCHANGED <<cbVars, callerVars, consec, now, qVars, wlkVars, unreferenced>>

\* As TimeoutDone, but the request id stays in the map.
TimeoutDone_KeepsId(r) ==
    /\ req_pc[r] = "timing_out"
    /\ UNCHANGED pending_requests
    /\ req_pc' = [req_pc EXCEPT ![r] = "done"]
    /\ req_out' = [req_out EXCEPT ![r] = "timeout"]
    /\ lastOp' = N8nOp("step", "none")
    /\ UNCHANGED <<conn_state, ws, reconnect_attempts, reconnect_task, ping_task,
                   message_handler_task, conn_pc, futures, req_id>>
    /\ UNCHANGED <<cbVars, callerVars, consec, now, qVars, wlkVars, unreferenced>>

\* wait_for raises TimeoutError: the except clause pops the request id and
\* raises TimeoutError.
TimeoutDone(r) ==
    /\ req_pc[r] = "timing_out"
    /\ pending_requests' = DictPop(pending_requests, req_id[r])
    /\ req_pc' = [req_pc EXCEPT ![r] = "done"]
    /\ req_out' = [req_out EXCEPT ![r] = "timeout"]
    /\ lastOp' = N8nOp("step", "none")
    /\ UNCHANGED <<conn_state, ws, reconnect_attempts, reconnect_task, ping_task,
                   message_handler_task, conn_pc, futures, req_id>>
    /\ UNCHANGED <<cbVars, callerVars, consec, now, qVars, wlkVars, unreferenced>>

\* The task awaiting _send_ws_request is cancelled: CancelledError is raised
\* at its await and passes `except asyncio.TimeoutError`, so the id is not
\* popped; a future being waited for is cancelled with the task.
CancelCaller(r) ==
    /\ req_pc[r] \in {"sending", "waiting", "timing_out"}
    /\ futures' = IF req_pc[r] = "waiting" /\ futures[r] = "pending"
                  THEN [futures EXCEPT ![r] = "cancelled"]
                  ELSE futures
    /\ req_pc' = [req_pc EXCEPT ![r] = "done"]
    /\ req_out' = [req_out EXCEPT ![r] = "cancelled"]
    /\ req_id' = [req_id EXCEPT ![r] = <<>>]
    /\ lastOp' = N8nOp("step", "none")
    /\ UNCHANGED <<conn_state, ws, pending_requests, reconnect_attempts,
                   reconnect_task, ping_task, message_handler_task, conn_pc>>
    /\ UNCHANGED <<cbVars, callerVars, consec, now, qVars, wlkVars, unreferenced>>

NTick ==
    /\ now < MaxStamp
    /\ now' = now + 1
    /\ lastOp' = N8nOp("step", "none")
    /\ UNCHANGED <<cbVars, callerVars, consec, qVars, n8nVars, wlkVars>>

NextN8n ==
    \/ \E c \in ConnCallers : ConnectBegin(c)
    \/ \E c \in ConnCallers : \E ok \in BOOLEAN : ConnectWsDone(c, ok)
    \/ \E c \in ConnCallers : HandshakeDone(c)
    \/ LoopStart
    \/ PingRound
    \/ \E id \in ResponseIds : MsgResponse(id)
    \/ MsgClosed
    \/ RemoteClose
    \/ \E r \in Requests : SendWsRequest(r)
    \/ \E r \in Requests : SendDone(r)
    \/ \E r \in Requests : RequestReturn(r)
    \/ \E r \in Requests : TimeoutFire(r)
    \/ \E r \in Requests : TimeoutDone(r)
    \/ \E r \in Requests : CancelCaller(r)
    \/ NTick

SpecN8n == Init /\ [][NextN8n]_vars

\* The inbound side on its own: connects, the two loops, the frames the
\* inbound loop receives, and requests that wait for their responses, all
\* at one reading of the clock (no request times out) and without callers
\* being cancelled.
NextInbound ==
    \/ \E c \in ConnCallers : ConnectBegin(c)
    \/ \E c \in ConnCallers : \E ok \in BOOLEAN : ConnectWsDone(c, ok)
    \/ \E c \in ConnCallers : HandshakeDone(c)
    \/ LoopStart
    \/ PingRound
    \/ \E id \in ResponseIds : MsgResponse(id)
    \/ \E kind \in UndeliveredFrames : MsgFrame(kind)
    \/ MsgClosed
    \/ RemoteClose
    \/ \E r \in Requests : SendWsRequest(r)
    \/ \E r \in Requests : SendDone(r)
    \/ \E r \in Requests : RequestReturn(r)

SpecInbound == Init /\ [][NextInbound]_vars

\* -------------------------------------------------------- N8nClient.close
\* close() is called by the owner (IntegrationOrchestrator.shutdown) when
\* it is not inside connect().  It is suspended closing the socket and the
\* HTTP session, so it is two steps.  A cancelled task runs no further code
\* of the client: CancelledError is not an Exception, no except clause of
\* the loops, of _reconnect or of connect() catches it.  The references
\* _ping_task, _message_handler_task, _reconnect_task and self.ws are left
\* as they are.

\* As CancelReconnect, but the reconnect task is left alone.
CancelReconnect_NotCancelled(cpc) == cpc

\* task.cancel() on the reconnect task, wherever it is suspended (in its
\* sleep, in websockets.connect or sending the handshake).
CancelReconnect(cpc) == [cpc EXCEPT !["reconnect"] = "idle"]

\* close() up to `await self.ws.close()`: the three tasks are cancelled.
CloseBegin ==
    /\ conn_pc["owner"] = "idle"
    /\ ping_task' = Cancel(ping_task)
    /\ message_handler_task' = Cancel(message_handler_task)
    /\ conn_pc' = [CancelReconnect(conn_pc) EXCEPT !["owner"] = "closing"]
    /\ ws' = IF ws = "open" THEN "closing" ELSE ws
    /\ lastOp' = N8nOp("close", "cancelled_tasks")
    /\ UNCHANGED <<conn_state, pending_requests, reconnect_attempts, reconnect_task,
                   futures, req_pc, req_id, req_out>>
    /\ UNCHANGED <<cbVars, callerVars, consec, now, qVars, wlkVars, unreferenced>>

\* The socket and the session are closed; close() sets DISCONNECTED and
\* returns.
CloseEnd ==
    /\ conn_pc["owner"] = "closing"
    /\ ws' = IF ws = "none" THEN "none" ELSE "closed"
    /\ conn_state' = "disconnected"
    /\ conn_pc' = [conn_pc EXCEPT !["owner"] = "closed"]
    /\ lastOp' = N8nOp("close", "returned")
    /\ UNCHANGED <<pending_requests, reconnect_attempts, reconnect_task, ping_task,
                   message_handler_task, futures, req_pc, req_id, req_out>>
    /\ UNCHANGED <<cbVars, callerVars, consec, now, qVars, wlkVars, unreferenced>>

\* The client from construction to shutdown, at one reading of the clock.
NextClose ==
    \/ \E c \in ConnCallers : ConnectBegin(c)
    \/ \E c \in ConnCallers : \E ok \in BOOLEAN : ConnectWsDone(c, ok)
    \/ \E c \in ConnCallers : HandshakeDone(c)
    \/ LoopStart
    \/ PingRound
    \/ \E id \in ResponseIds : MsgResponse(id)
    \/ MsgClosed
    \/ RemoteClose
    \/ \E r \in Requests : SendWsRequest(r)
    \/ \E r \in Requests : SendDone(r)
    \/ \E r \in Requests : RequestReturn(r)
    \/ \E r \in Requests : CancelCaller(r)
    \/ CloseBegin
    \/ CloseEnd

SpecClose == Init /\ [][NextClose]_vars

\* ------------------------------------------------- N8nClient.send_request
\* send_request: the request goes through the client's circuit breaker
\* (failure_threshold 3, expected_exception Exception); when the call raises
\* an Exception, the except clause adds the request to the offline queue
\* and raises the error again.  add_item has no suspension of its own (its
\* awaits are coroutines that run sqlite calls), so the except clause is
\* part of the step in which the error appears.  Each caller is one call
\* site with its own method and data; the client has its offline queue
\* (enable_offline_queue, the default).
SendArgs ==
    [c \in Callers |->
        IF c = 1
        THEN [method |-> "process_prompt", data |-> <<"py", "{text:hello}">>]
        ELSE [method |-> "test", data |-> <<"py", "{message:Integration test}">>]]

\* add_item(service_name="n8n", method_name=method, payload=data)
QueuedRequest(c) ==
    [service_name |-> "n8n", method_name |-> SendArgs[c].method,
     payload |-> SendArgs[c].data, max_retries |-> DefaultMaxRetries,
     metadata |-> PyNone]

\* How _send_request_impl ends: an N8nResponse is returned, an Exception is
\* raised (wait_for timed out, the connection failed, the webhook call
\* failed), or the calling task is cancelled (CancelledError, which is not
\* an Exception).
SendFailures == {"timeout", "connection_error", "webhook_error"}
SendOutcomes == {"response", "cancelled"} \cup SendFailures

\* What the breaker sees of it.
BreakerOutcome(o) ==
    IF o = "response" THEN "success"
    ELSE IF o \in SendFailures THEN "failure" ELSE "other"

\* As CaughtByExcept, but the breaker's rejection is not caught.
CaughtByExcept_NotBreakerOpen(o) == o \in SendFailures

\* `except Exception` of send_request.
CaughtByExcept(o) == o \in SendFailures \cup {"CircuitOpenError"}

\* The except clause (when it applies) and what send_request leaves in the
\* queue.
ExceptClause(c, o) ==
    IF CaughtByExcept(o)
    THEN seq < MaxQueued /\ AddItemCore(QueuedRequest(c))
    ELSE UNCHANGED <<items, seq, ever_ids, handled, added, ret>>

\* send_request up to the suspension inside _send_request_impl, or to the
\* breaker's rejection.
SendRequestBegin(c) ==
    /\ CallBeginCore(c)
    /\ LET o == IF state' = "open" THEN "CircuitOpenError" ELSE "sent"
       IN  /\ ExceptClause(c, o)
           /\ lastOp' = [op |-> "send_request", c |-> c, out |-> o]
    /\ UNCHANGED <<now, retry_handlers, processing, pq_items, pq_idx, peer, n8nVars, wlkVars>>

\* _send_request_impl ends and send_request returns or raises.
SendRequestEnd(c, o) ==
    /\ CallEndCore(c, BreakerOutcome(o))
    /\ ExceptClause(c, o)
    /\ lastOp' = [op |-> "send_request", c |-> c, out |-> o]
    /\ UNCHANGED <<now, retry_handlers, processing, pq_items, pq_idx, peer, n8nVars, wlkVars>>

\* N8nClient.__init__ with enable_offline_queue: the queue exists and the
\* client's _retry_handler is registered for "n8n".
InitSend ==
    /\ InitBreaker
    /\ InitCallers
    /\ InitN8n
    /\ InitWlk
    /\ items = <<>>
    /\ seq = 0
    /\ retry_handlers = {"n8n"}
    /\ processing = FALSE
    /\ pq_items = <<>>
    /\ pq_idx = 0
    /\ peer = NoPeer
    /\ ret = NoRet
    /\ ever_ids = {}
    /\ handled = <<>>
    /\ added = <<>>
    /\ consec = 0
    /\ lastOp = NoOp
    /\ now = 0

NextSend ==
    \/ \E c \in Callers : SendRequestBegin(c)
    \/ \E c \in Callers, o \in SendOutcomes : SendRequestEnd(c, o)
    \/ Tick

SpecSend == InitSend /\ [][NextSend]_vars

\* ------------------------------------- two OfflineQueue instances, one store
\* A second OfflineQueue over the same database file (every N8nClient opens
\* config.offline_queue_db and registers its "n8n" handler), in the same
\* event loop.  The table is shared; _processing, _retry_handlers and the
\* list a run fetched belong to the instance.  Both instances start as
\* N8nClient.__init__ leaves them, with the "n8n" handler registered.

\* process_queue() of the second instance, called while it has no run in
\* progress: from the guard to the first `await handler(...)`, or to the end.
PeerProcessQueueStart ==
    /\ ~peer.processing
    /\ \E list \in GetPendingItems(items, now, DefaultLimit) :
          LET r == RunLoop(items, list, 1, HandlerServices, now)
          IN  /\ items' = r.items
              /\ peer' = [processing |-> (r.idx # 0),
                          pq_items |-> IF r.idx = 0 THEN <<>> ELSE list,
                          pq_idx |-> r.idx]
              /\ handled' = Invoke(handled, list, r.idx)
    /\ UNCHANGED lastOp
    /\ ret' = NoRet
    /\ UNCHANGED <<seq, retry_handlers, processing, pq_items, pq_idx, ever_ids, added>>
    /\ UNCHANGED <<cbVars, callerVars, consec, now, n8nVars, wlkVars>>

\* The handler awaited by the second instance's run returns, raises or is
\* cancelled (as HandlerDone).
PeerHandlerDone(outcome) ==
    /\ peer.processing
    /\ peer.pq_idx # 0
    /\ LET it == peer.pq_items[peer.pq_idx]
           its1 == IF outcome = "ok"
                   THEN UpdateItemStatus(items, it.id, "completed", "NULL", now)
                   ELSE UpdateItemStatus(items, it.id, "failed", "handler error", now)
           r == IF outcome = "cancelled"
                THEN [items |-> items, idx |-> 0]
                ELSE RunLoop(its1, peer.pq_items, peer.pq_idx + 1, HandlerServices, now)
       IN  /\ items' = r.items
           /\ peer' = [processing |-> (r.idx # 0),
                       pq_items |-> IF r.idx = 0 THEN <<>> ELSE peer.pq_items,
                       pq_idx |-> r.idx]
           /\ handled' = Invoke(handled, peer.pq_items, r.idx)
    /\ UNCHANGED lastOp
    /\ ret' = NoRet
    /\ UNCHANGED <<seq, retry_handlers, processing, pq_items, pq_idx, ever_ids, added>>
    /\ UNCHANGED <<cbVars, callerVars, consec, now, n8nVars, wlkVars>>

NextProcessors ==
    \/ \E in \in AddInputs : AddItem(in)
    \/ ProcessQueueStart
    \/ \E o \in HandlerOutcomes : HandlerDone(o)
    \/ PeerProcessQueueStart
    \/ \E o \in HandlerOutcomes : PeerHandlerDone(o)
    \/ QTick

SpecProcessors == InitSend /\ [][NextProcessors]_vars

\* ------------------------------------------ N8nClient: retries of the queue
\* process_queue with the handler the client registers, _retry_handler,
\* which sends the item again with send_request(method, payload,
\* use_webhook=True) and raises what send_request raises.  A run is
\* suspended only inside the webhook call; the code between two
\* suspensions runs without interruption: after RetryRunStart and after
\* RetryEnd the run goes on with RetryInvoke for each item in turn, and
\* while RetryInvoke is due (AtItem) no other action is taken.

\* The caller slot of the send_request that _retry_handler makes.
RetryCaller == NumCallers

AtItem == processing /\ pq_idx # 0 /\ pc[RetryCaller] = "idle"
Awaiting == processing /\ pq_idx # 0 /\ pc[RetryCaller] = "running"

\* How the webhook call of a retry ends: an N8nResponse is returned (for
\* every HTTP status), the POST raises, or the task is cancelled.
RetryOutcomes == {"response", "webhook_error", "cancelled"}

\* add_item(service_name="n8n", method_name=method, payload=data) of the
\* except clause, for the item being retried.
RetryRequest(it) ==
    [service_name |-> "n8n", method_name |-> it.method_name,
     payload |-> it.payload, max_retries |-> DefaultMaxRetries,
     metadata |-> PyNone]

\* The table after add_item(in) on table its.
AddItemTo(its, sq, in, t) ==
    LET its1 == IF GetQueueSize(its) >= MaxItems
                THEN CleanupOldItems(its, t)
                ELSE its
    IN  Insert(its1, NewRow(LastRowId(its1, sq), in, t))

\* The end of the for loop's body: the next item, or the end of the run
\* (the finally block clears _processing).
NextItem ==
    IF pq_idx < Len(pq_items)
    THEN /\ pq_idx' = pq_idx + 1
         /\ UNCHANGED <<pq_items, processing>>
    ELSE /\ pq_idx' = 0
         /\ pq_items' = <<>>
         /\ processing' = FALSE

\* A retry that raises an Exception, on table its: the except clause of
\* send_request adds the request to the queue and raises again,
\* _retry_handler raises again, and the except clause of process_queue
\* marks the retried item failed.
RetryFailed(its, it) ==
    LET in == RetryRequest(it)
        id == LastRowId(its, seq)
    IN  /\ seq < MaxQueued
        /\ items' = UpdateItemStatus(AddItemTo(its, seq, in, now), it.id,
                                     "failed", "handler error", now)
        /\ seq' = id
        /\ ever_ids' = ever_ids \cup {id}
        /\ handled' = [i \in DOMAIN handled \cup {id} |->
                          IF i \in DOMAIN handled
                          THEN Invoke(handled, pq_items, pq_idx)[i] ELSE <<>>]
        /\ added' = [i \in DOMAIN added \cup {id} |->
                        IF i \in DOMAIN added THEN added[i] ELSE in]

\* process_queue(), called while no run is in progress: the guard and
\* get_pending_items.
RetryRunStart ==
    /\ ~processing
    /\ \E list \in GetPendingItems(items, now, DefaultLimit) :
          /\ processing' = (list # <<>>)
          /\ pq_items' = list
          /\ pq_idx' = IF list = <<>> THEN 0 ELSE 1
    /\ lastOp' = [op |-> "process_queue", c |-> 0, out |-> "started"]
    /\ ret' = NoRet
    /\ UNCHANGED <<items, seq, retry_handlers, ever_ids, handled, added, peer>>
    /\ UNCHANGED <<cbVars, callerVars, consec, now, n8nVars, wlkVars>>

\* The body of the for loop for the item at pq_idx, up to the suspension in
\* the webhook call or to the end of the body: the item is marked
\* processing and the handler is looked up and invoked; send_request goes
\* through the breaker, which invokes the webhook call or rejects it.
RetryInvoke ==
    /\ AtItem
    /\ LET it == pq_items[pq_idx]
           its1 == UpdateItemStatus(items, it.id, "processing", "NULL", now)
       IN  IF it.service_name \notin retry_handlers
           THEN /\ items' = UpdateItemStatus(its1, it.id, "failed", "No handler", now)
                /\ NextItem
                /\ lastOp' = [op |-> "retry", c |-> RetryCaller, out |-> "no_handler"]
                /\ UNCHANGED <<seq, ever_ids, handled, added>>
                /\ UNCHANGED <<cbVars, callerVars, consec>>
           ELSE /\ CallBeginCore(RetryCaller)
                /\ IF state' = "open"
                   THEN /\ RetryFailed(its1, it)
                        /\ NextItem
                        /\ lastOp' = [op |-> "retry", c |-> RetryCaller,
                                      out |-> "CircuitOpenError"]
                   ELSE /\ items' = its1
                        /\ handled' = Invoke(handled, pq_items, pq_idx)
                        /\ lastOp' = [op |-> "retry", c |-> RetryCaller,
                                      out |-> "sent"]
                        /\ UNCHANGED <<seq, ever_ids, added>>
                        /\ UNCHANGED <<pq_items, pq_idx, processing>>
    /\ ret' = NoRet
    /\ UNCHANGED <<retry_handlers, peer, now, n8nVars, wlkVars>>

\* The webhook call of the retry ends: the breaker records the outcome,
\* send_request returns or raises, and process_queue marks the item
\* completed or failed and goes to the next item.  On cancellation no
\* except clause applies and the run ends in the finally block.
RetryEnd(o) ==
    /\ Awaiting
    /\ CallEndCore(RetryCaller, BreakerOutcome(o))
    /\ LET it == pq_items[pq_idx]
       IN  CASE o = "response" ->
                  /\ items' = UpdateItemStatus(items, it.id, "completed", "NULL", now)
                  /\ NextItem
                  /\ UNCHANGED <<seq, ever_ids, handled, added>>
             [] o = "cancelled" ->
                  /\ pq_idx' = 0
                  /\ pq_items' = <<>>
                  /\ processing' = FALSE
                  /\ UNCHANGED <<items, seq, ever_ids, handled, added>>
             [] OTHER ->
                  /\ RetryFailed(items, it)
                  /\ NextItem
    /\ lastOp' = [op |-> "retry", c |-> RetryCaller, out |-> o]
    /\ ret' = NoRet
    /\ UNCHANGED <<retry_handlers, peer, now, n8nVars, wlkVars>>

\* The orchestrator's requests and the clock, between the uninterrupted
\* segments of a run.
ClientSendBegin(c) == ~AtItem /\ SendRequestBegin(c)
ClientSendEnd(c, o) == ~AtItem /\ SendRequestEnd(c, o)
RetryTick == ~AtItem /\ Tick

NextRetry ==
    \/ \E c \in Callers \ {RetryCaller} : ClientSendBegin(c)
    \/ \E c \in Callers \ {RetryCaller}, o \in SendOutcomes : ClientSendEnd(c, o)
    \/ RetryRunStart
    \/ RetryInvoke
    \/ \E o \in RetryOutcomes : RetryEnd(o)
    \/ RetryTick

SpecRetry == InitSend /\ [][NextRetry]_vars

\* ------------------------------------------ OfflineQueue across a restart
\* The process dies while process_queue is suspended in a handler and is
\* started again: N8nClient.__init__ builds a new
\* OfflineQueue on the same file.  _init_db creates the table only if it
\* does not exist and touches no row; _processing is False, the run that
\* was in progress is gone, and the "n8n" handler is registered again.
\* After that the background processor calls process_queue every interval.
Restart ==
    /\ processing
    /\ processing' = FALSE
    /\ pq_items' = <<>>
    /\ pq_idx' = 0
    /\ retry_handlers' = {"n8n"}
    /\ ret' = [op |-> "init_db", in |-> <<>>, limit |-> 0, id |-> 0, items |-> <<>>]
    /\ UNCHANGED lastOp
    /\ UNCHANGED <<items, seq, ever_ids, handled, added, peer>>
    /\ UNCHANGED <<cbVars, callerVars, consec, now, n8nVars, wlkVars>>

NextRestart ==
    \/ \E in \in AddInputs : AddItem(in)
    \/ ProcessQueueStart
    \/ \E o \in HandlerOutcomes : HandlerDone(o)
    \/ Restart
    \/ QTick

\* start_background_processor keeps calling process_queue, an awaited
\* handler ends, and time passes.
SpecRestart ==
    /\ InitSend
    /\ [][NextRestart]_vars
    /\ WF_vars(ProcessQueueStart)
    /\ WF_vars(\E o \in HandlerOutcomes : HandlerDone(o))
    /\ WF_vars(QTick)

\* ------------------------------------- OfflineQueue.update_item_status
\* update_item_status as a function of the stored row, the status asked for
\* and the clock.  The rows it is applied to are the ones add_item and
\* update_item_status(FAILED) themselves produce, for every max_retries up to
\* MaxRetryLimit and every number of failures recorded so far.

StatusInputs ==
    {[service_name |-> "n8n", method_name |-> "process_transcription",
      payload |-> <<"py", "{text:hello}">>, max_retries |-> m, metadata |-> PyNone]
        : m \in 0..MaxRetryLimit}

ErrorMessages == {"NULL", "error"}

\* k calls of update_item_status(id, FAILED, "error") at time t.
RECURSIVE FailTimes(_, _, _, _)
FailTimes(its, id, k, t) ==
    IF k = 0 THEN its
    ELSE FailTimes(UpdateItemStatus(its, id, "failed", "error", t), id, k - 1, t)

\* get_queue_stats(): the number of rows per status present in the table.
GetQueueStats(its) ==
    [s \in {its[i].status : i \in Ids(its)} |->
        Cardinality({i \in Ids(its) : its[i].status = s})]

InitStatus ==
    /\ InitBreaker
    /\ InitCallers
    /\ InitN8n
    /\ InitWlk
    /\ consec = 0
    /\ lastOp = NoOp
    /\ now = 0
    /\ \E in \in StatusInputs : \E k \in 0..in.max_retries :
          /\ items = FailTimes(Insert(<<>>, NewRow(1, in, 0)), 1, k, 0)
          /\ added = <<in>>
    /\ seq = 1
    /\ retry_handlers = {}
    /\ processing = FALSE
    /\ pq_items = <<>>
    /\ pq_idx = 0
    /\ peer = NoPeer
    /\ ret = NoRet
    /\ ever_ids = {1}
    /\ handled = <<<<>>>>

\* update_item_status(item_id, status, error_message), called directly;
\* lastOp keeps the status the call found the item in.
UpdateStatus(id, status, err) ==
    /\ items' = UpdateItemStatus(items, id, status, err, now)
    /\ ret' = [op |-> "update_item_status", in |-> <<status, err>>, limit |-> 0,
                id |-> id, items |-> <<>>]
    /\ lastOp' = [op |-> "update_item_status", c |-> id,
                   out |-> IF id \in Ids(items) THEN items[id].status ELSE "none"]
    /\ UNCHANGED <<seq, retry_handlers, processing, pq_items, pq_idx, peer, ever_ids,
                   handled, added>>
    /\ UNCHANGED <<cbVars, callerVars, consec, now, n8nVars, wlkVars>>

NextStatus ==
    \/ \E id \in 1..MaxAdds : \E st \in Statuses : \E err \in ErrorMessages :
          UpdateStatus(id, st, err)
    \/ QTick

SpecStatus == InitStatus /\ [][NextStatus]_vars

\* -------------------------------------------------- WhisperLiveKitClient
\* The transcription client.  Its coroutines: the owner's connect(), one
\* caller of send_audio() (chunk n is the n-th chunk handed to send_audio),
\* the health-check loop, the stream loop, and the tasks created by
\* _schedule_reconnect.  The socket is "none" (self.ws is None), "open", or
\* "closed" (the object is there, the connection is gone); ws.send succeeds
\* exactly on an open socket.  The breaker variables are those of the
\* client's own CircuitBreaker (constructed with failure_threshold=3; with
\* at most MaxChunks calls it rejects none under either threshold).

AudioCaller == 1

WlkOp(name, out) == [op |-> name, c |-> 0, out |-> out]

\* The caller of send_audio is between _send_audio_impl raising
\* ConnectionError and the end of the except clause: no other coroutine
\* runs there.
Ready == wpc.sender # "raising"

FreeTask(rt) ==
    CHOOSE k \in RTasks :
        /\ rt[k].pc = "none"
        /\ \A j \in RTasks : rt[j].pc = "none" => k <= j

\* A task can be created when _schedule_reconnect would create one (at most
\* MaxReconnectTasks tasks of _reconnect exist at a time).
TaskAvailable(cl, rt) ==
    \/ cl.reconnect_task # 0
    \/ cl.reconnect_attempts >= MaxReconnectAttempts
    \/ \E k \in RTasks : rt[k].pc = "none"

\* _schedule_reconnect().
WlkScheduleReconnect(cl, rt) ==
    IF cl.reconnect_task # 0
    THEN [wlk |-> cl, rtask |-> rt]
    ELSE IF cl.reconnect_attempts >= MaxReconnectAttempts
         THEN [wlk |-> [cl EXCEPT !.state = "error"], rtask |-> rt]
         ELSE LET k == FreeTask(rt)
              IN  [wlk |-> [cl EXCEPT !.reconnect_attempts = @ + 1,
                                      !.reconnect_task = k],
                   rtask |-> [rt EXCEPT ![k] = [pc |-> "sleeping", i |-> 0]]]

\* connect() after _send_config() returned: LISTENING (set by
\* _connect_websocket), _start_background_tasks() (the old tasks cancelled,
\* two new ones created), _connected, the attempt counter.
ConnectOk(cl) ==
    [cl EXCEPT !.state = "listening",
               !.health_check_task = "live",
               !.audio_stream_task = "live",
               !.connected = TRUE,
               !.reconnect_attempts = 0]

\* The end of _process_audio_buffer: the buffer is cleared, after the loop
\* over the chunks ended or was left by `break`; the lock is released; the
\* task k of _reconnect ends.
FlushEnd(cl, rt, k) ==
    [wlk |-> [cl EXCEPT !.audio_buffer = <<>>, !.buffer_lock.locked = FALSE],
     rtask |-> [rt EXCEPT ![k] = NoTask]]

\* _process_audio_buffer with the lock held, at chunk i: an empty buffer
\* returns; past the last chunk the loop ends; _send_audio_impl raises
\* ConnectionError when there is no open socket, and the loop is left;
\* otherwise the task suspends in ws.send.
FlushFrom(cl, rt, k, i) ==
    IF i > Len(cl.audio_buffer) \/ cl.ws # "open"
    THEN FlushEnd(cl, rt, k)
    ELSE [wlk |-> [cl EXCEPT !.buffer_lock.locked = TRUE],
          rtask |-> [rt EXCEPT ![k] = [pc |-> "flush_send", i |-> i]]]

\* _reconnect(), task k, from the return of connect() (whatever it
\* returned): _reconnect_task = None, then _process_audio_buffer() up to
\* its first suspension: on the lock when it is held or waited for, else in
\* the first ws.send.
AfterConnect(cl, rt, k) ==
    LET c1 == [cl EXCEPT !.reconnect_task = 0]
    IN  IF c1.buffer_lock.locked \/ c1.buffer_lock.waiters # <<>>
        THEN [wlk |-> [c1 EXCEPT !.buffer_lock.waiters = Append(@, k)],
              rtask |-> [rt EXCEPT ![k] = [pc |-> "flush_lock", i |-> 0]]]
        ELSE FlushFrom(c1, rt, k, 1)

\* The except clause of connect(): _schedule_reconnect(), return False.
WlkConnectFailed(cl, rt) == WlkScheduleReconnect(cl, rt)

\* connect() by the owner, up to `await self.health_check()`.
OwnerConnectBegin ==
    /\ Ready
    /\ wpc.owner = "idle"
    /\ wpc' = IF wlk.connected THEN wpc ELSE [wpc EXCEPT !.owner = "health"]
    /\ lastOp' = WlkOp("connect", IF wlk.connected THEN "returned" ELSE "none")
    /\ UNCHANGED <<wlk, rtask, wire>>
    /\ UNCHANGED <<cbVars, callerVars, consec, now, qVars, n8nVars>>

\* connect() by the owner from the result of health_check(): an unhealthy
\* service returns False; else up to `await websockets.connect(...)`.
OwnerConnectHealth(healthy) ==
    /\ Ready
    /\ wpc.owner = "health"
    /\ wpc' = [wpc EXCEPT !.owner = IF healthy THEN "ws" ELSE "idle"]
    /\ lastOp' = WlkOp("connect", IF healthy THEN "none" ELSE "returned")
    /\ UNCHANGED <<wlk, rtask, wire>>
    /\ UNCHANGED <<cbVars, callerVars, consec, now, qVars, n8nVars>>

\* connect() by the owner from the result of websockets.connect(): the
\* socket is stored and _send_config() suspends in ws.send, or the error
\* reaches the except clause.
OwnerConnectWs(ok) ==
    /\ Ready
    /\ wpc.owner = "ws"
    /\ TaskAvailable(wlk, rtask)
    /\ LET r == IF ok
                THEN [wlk |-> [wlk EXCEPT !.ws = "open"], rtask |-> rtask]
                ELSE WlkConnectFailed(wlk, rtask)
       IN  /\ wlk' = r.wlk
           /\ rtask' = r.rtask
    /\ wpc' = [wpc EXCEPT !.owner = IF ok THEN "config" ELSE "idle"]
    /\ lastOp' = WlkOp("connect", IF ok THEN "none" ELSE "returned")
    /\ UNCHANGED wire
    /\ UNCHANGED <<cbVars, callerVars, consec, now, qVars, n8nVars>>

\* connect() by the owner from the result of _send_config().
OwnerConnectConfig ==
    /\ Ready
    /\ wpc.owner = "config"
    /\ TaskAvailable(wlk, rtask)
    /\ LET r == IF wlk.ws = "open"
                THEN [wlk |-> ConnectOk(wlk), rtask |-> rtask]
                ELSE WlkConnectFailed(wlk, rtask)
       IN  /\ wlk' = r.wlk
           /\ rtask' = r.rtask
    /\ wpc' = [wpc EXCEPT !.owner = "idle"]
    /\ lastOp' = WlkOp("connect", "returned")
    /\ UNCHANGED wire
    /\ UNCHANGED <<cbVars, callerVars, consec, now, qVars, n8nVars>>

\* _reconnect(), task k, waking from its sleep: connect(), which returns at
\* once when the client is connected, else suspends in health_check().
ReconnectWake(k) ==
    /\ Ready
    /\ rtask[k].pc = "sleeping"
    /\ LET r == IF wlk.connected
                THEN AfterConnect(wlk, rtask, k)
                ELSE [wlk |-> wlk, rtask |-> [rtask EXCEPT ![k].pc = "health"]]
       IN  /\ wlk' = r.wlk
           /\ rtask' = r.rtask
    /\ lastOp' = WlkOp("reconnect", IF wlk.connected THEN "connect_returned" ELSE "none")
    /\ UNCHANGED <<wpc, wire>>
    /\ UNCHANGED <<cbVars, callerVars, consec, now, qVars, n8nVars>>

\* connect() in task k from the result of health_check().
ReconnectHealth(k, healthy) ==
    /\ Ready
    /\ rtask[k].pc = "health"
    /\ LET r == IF healthy
                THEN [wlk |-> wlk, rtask |-> [rtask EXCEPT ![k].pc = "ws"]]
                ELSE AfterConnect(wlk, rtask, k)
       IN  /\ wlk' = r.wlk
           /\ rtask' = r.rtask
    /\ lastOp' = WlkOp("reconnect", IF healthy THEN "none" ELSE "connect_returned")
    /\ UNCHANGED <<wpc, wire>>
    /\ UNCHANGED <<cbVars, callerVars, consec, now, qVars, n8nVars>>

\* connect() in task k from the result of websockets.connect().
ReconnectWs(k, ok) ==
    /\ Ready
    /\ rtask[k].pc = "ws"
    /\ TaskAvailable(wlk, rtask)
    /\ LET r == IF ok
                THEN [wlk |-> [wlk EXCEPT !.ws = "open"],
                      rtask |-> [rtask EXCEPT ![k].pc = "config"]]
                ELSE LET f == WlkConnectFailed(wlk, rtask)
                     IN  AfterConnect(f.wlk, f.rtask, k)
       IN  /\ wlk' = r.wlk
           /\ rtask' = r.rtask
    /\ lastOp' = WlkOp("reconnect", IF ok THEN "none" ELSE "connect_returned")
    /\ UNCHANGED <<wpc, wire>>
    /\ UNCHANGED <<cbVars, callerVars, consec, now, qVars, n8nVars>>

\* connect() in task k from the result of _send_config().
ReconnectConfig(k) ==
    /\ Ready
    /\ rtask[k].pc = "config"
    /\ TaskAvailable(wlk, rtask)
    /\ LET f == IF wlk.ws = "open"
                THEN [wlk |-> ConnectOk(wlk), rtask |-> rtask]
                ELSE WlkConnectFailed(wlk, rtask)
           r == AfterConnect(f.wlk, f.rtask, k)
       IN  /\ wlk' = r.wlk
           /\ rtask' = r.rtask
    /\ lastOp' = WlkOp("reconnect", "connect_returned")
    /\ UNCHANGED <<wpc, wire>>
    /\ UNCHANGED <<cbVars, callerVars, consec, now, qVars, n8nVars>>

\* _process_audio_buffer in task k obtains the lock it waited for.
FlushLock(k) ==
    /\ Ready
    /\ rtask[k].pc = "flush_lock"
    /\ ~wlk.buffer_lock.locked
    /\ Head(wlk.buffer_lock.waiters) = k
    /\ LET r == FlushFrom([wlk EXCEPT !.buffer_lock.waiters = Tail(@)], rtask, k, 1)
       IN  /\ wlk' = r.wlk
           /\ rtask' = r.rtask
    /\ lastOp' = WlkOp("flush", "none")
    /\ UNCHANGED <<wpc, wire>>
    /\ UNCHANGED <<cbVars, callerVars, consec, now, qVars, n8nVars>>

\* _process_audio_buffer in task k from the result of ws.send for chunk i:
\* sent, and the task sleeps 0.01 s; or the send raised, and the loop is
\* left.
FlushSent(k) ==
    /\ Ready
    /\ rtask[k].pc = "flush_send"
    /\ IF wlk.ws = "open"
       THEN /\ wire' = Append(wire, wlk.audio_buffer[rtask[k].i])
            /\ rtask' = [rtask EXCEPT ![k].pc = "flush_sleep"]
            /\ UNCHANGED wlk
       ELSE LET r == FlushEnd(wlk, rtask, k)
            IN  /\ wlk' = r.wlk
                /\ rtask' = r.rtask
                /\ UNCHANGED wire
    /\ lastOp' = WlkOp("flush", IF wlk.ws = "open" THEN "sent" ELSE "raised")
    /\ UNCHANGED wpc
    /\ UNCHANGED <<cbVars, callerVars, consec, now, qVars, n8nVars>>

\* _process_audio_buffer in task k after its sleep: the next chunk.
FlushNext(k) ==
    /\ Ready
    /\ rtask[k].pc = "flush_sleep"
    /\ LET r == FlushFrom(wlk, rtask, k, rtask[k].i + 1)
       IN  /\ wlk' = r.wlk
           /\ rtask' = r.rtask
    /\ lastOp' = WlkOp("flush", "none")
    /\ UNCHANGED <<wpc, wire>>
    /\ UNCHANGED <<cbVars, callerVars, consec, now, qVars, n8nVars>>

\* send_audio buffers the chunk: `async with self._buffer_lock: append`,
\* and on the not-connected path _schedule_reconnect() after it.  With the
\* lock held or waited for, the caller queues for it.
BufferChunk(cl, rt, pcs, chunk, schedule) ==
    IF cl.buffer_lock.locked \/ cl.buffer_lock.waiters # <<>>
    THEN [wlk |-> [cl EXCEPT !.buffer_lock.waiters = Append(@, 0)],
          rtask |-> rt,
          wpc |-> [pcs EXCEPT !.sender = "lock", !.schedule = schedule]]
    ELSE LET c1 == [cl EXCEPT !.audio_buffer = Append(@, chunk)]
             r == IF schedule THEN WlkScheduleReconnect(c1, rt)
                              ELSE [wlk |-> c1, rtask |-> rt]
         IN  [wlk |-> r.wlk, rtask |-> r.rtask,
              wpc |-> [pcs EXCEPT !.sender = "idle", !.schedule = FALSE]]

\* send_audio(chunk) up to its first suspension.  Not connected: the chunk
\* is buffered.  Connected: circuit_breaker.call(_send_audio_impl); a
\* rejected call is buffered; _send_audio_impl raises at once without an
\* open socket, else suspends in ws.send.
SendAudio ==
    /\ Ready
    /\ wpc.sender = "idle"
    /\ wpc.n < MaxChunks
    /\ TaskAvailable(wlk, rtask)
    /\ LET chunk == wpc.n + 1
           pcs == [wpc EXCEPT !.n = chunk]
       IN  IF ~wlk.connected
           THEN LET r == BufferChunk(wlk, rtask, pcs, chunk, TRUE)
                IN  /\ wlk' = r.wlk
                    /\ rtask' = r.rtask
                    /\ wpc' = r.wpc
                    /\ lastOp' = WlkOp("send_audio", "buffered")
                    /\ UNCHANGED <<cbVars, callerVars, consec>>
           ELSE /\ CallBeginCore(AudioCaller)
                /\ IF state' = "open"
                   THEN LET r == BufferChunk(wlk, rtask, pcs, chunk, FALSE)
                        IN  /\ wlk' = r.wlk
                            /\ rtask' = r.rtask
                            /\ wpc' = r.wpc
                            /\ lastOp' = WlkOp("send_audio", "CircuitOpenError")
                   ELSE /\ wpc' = [pcs EXCEPT !.sender =
                                      IF wlk.ws = "open" THEN "sending" ELSE "raising"]
                        /\ lastOp' = WlkOp("send_audio", "invoked")
                        /\ UNCHANGED <<wlk, rtask>>
    /\ UNCHANGED wire
    /\ UNCHANGED <<now, qVars, n8nVars>>

\* send_audio after _send_audio_impl raised ConnectionError: the breaker
\* records the failure, the except clause buffers the chunk.
SendAudioRaise ==
    /\ wpc.sender = "raising"
    /\ CallEndCore(AudioCaller, "failure")
    /\ LET r == BufferChunk(wlk, rtask, wpc, wpc.n, FALSE)
       IN  /\ wlk' = r.wlk
           /\ rtask' = r.rtask
           /\ wpc' = r.wpc
    /\ lastOp' = WlkOp("send_audio", "ConnectionError")
    /\ UNCHANGED wire
    /\ UNCHANGED <<now, qVars, n8nVars>>

\* send_audio from the result of ws.send: sent; or the send raised, the
\* breaker records the failure and the chunk is buffered.
SendAudioDone ==
    /\ Ready
    /\ wpc.sender = "sending"
    /\ IF wlk.ws = "open"
       THEN /\ CallEndCore(AudioCaller, "success")
            /\ wire' = Append(wire, wpc.n)
            /\ wpc' = [wpc EXCEPT !.sender = "idle"]
            /\ lastOp' = WlkOp("send_audio", "sent")
            /\ UNCHANGED <<wlk, rtask>>
       ELSE /\ CallEndCore(AudioCaller, "failure")
            /\ LET r == BufferChunk(wlk, rtask, wpc, wpc.n, FALSE)
               IN  /\ wlk' = r.wlk
                   /\ rtask' = r.rtask
                   /\ wpc' = r.wpc
            /\ lastOp' = WlkOp("send_audio", "raised")
            /\ UNCHANGED wire
    /\ UNCHANGED <<now, qVars, n8nVars>>

\* send_audio obtains the lock it waited for.
SendAudioLock ==
    /\ Ready
    /\ wpc.sender = "lock"
    /\ ~wlk.buffer_lock.locked
    /\ Head(wlk.buffer_lock.waiters) = 0
    /\ TaskAvailable(wlk, rtask)
    /\ LET r == BufferChunk([wlk EXCEPT !.buffer_lock.waiters = Tail(@)], rtask,
                            wpc, wpc.n, wpc.schedule)
       IN  /\ wlk' = r.wlk
           /\ rtask' = r.rtask
           /\ wpc' = r.wpc
    /\ lastOp' = WlkOp("send_audio", "buffered")
    /\ UNCHANGED wire
    /\ UNCHANGED <<cbVars, callerVars, consec, now, qVars, n8nVars>>

\* _handle_disconnect(), run by the loop task `who`: not connected, IDLE,
\* both loop tasks cancelled (the running one among them), then
\* `await self.ws.close()` when there is a socket.  When close() suspends,
\* the pending cancellation of the running task is delivered there:
\* CancelledError leaves the handler and the loop, nothing after the await
\* runs.  close() of an open socket performs the closing handshake and
\* suspends; close() of a socket whose connection is gone may return
\* without suspending, and then the socket is cleared and
\* _schedule_reconnect() runs.
WlkHandleDisconnect(who, suspends) ==
    LET c1 == [wlk EXCEPT !.connected = FALSE,
                          !.state = "idle",
                          !.health_check_task = Cancel(@),
                          !.audio_stream_task = Cancel(@)]
        r == IF c1.ws # "none" /\ suspends
             THEN [wlk |-> c1, rtask |-> rtask]
             ELSE WlkScheduleReconnect([c1 EXCEPT !.ws = "none"], rtask)
    IN  /\ c1.ws = "open" => suspends
        /\ TaskAvailable(c1, rtask)
        /\ wlk' = r.wlk
        /\ rtask' = r.rtask
        /\ lastOp' = WlkOp(who, IF c1.ws # "none" /\ suspends
                                THEN "cancelled" ELSE "returned")

\* _health_check_loop: one round (sleep, health_check()).  A healthy
\* service: the loop goes on while _connected.  Else _handle_disconnect().
HealthCheckRound(healthy, suspends) ==
    /\ Ready
    /\ wlk.health_check_task = "live"
    /\ IF healthy
       THEN /\ ~suspends
            /\ wlk' = IF wlk.connected THEN wlk
                      ELSE [wlk EXCEPT !.health_check_task = "ended"]
            /\ lastOp' = WlkOp("step", "none")
            /\ UNCHANGED rtask
       ELSE WlkHandleDisconnect("health_check_loop", suspends)
    /\ UNCHANGED <<wpc, wire>>
    /\ UNCHANGED <<cbVars, callerVars, consec, now, qVars, n8nVars>>

\* _audio_stream_loop: recv() returns a message; an "error" message sets
\* the state ERROR.  The loop goes on while _connected and self.ws.
StreamMessage(kind) ==
    /\ Ready
    /\ wlk.audio_stream_task = "live"
    /\ wlk.ws = "open"
    /\ wlk' = [wlk EXCEPT !.state = IF kind = "error" THEN "error" ELSE @,
                          !.audio_stream_task = IF wlk.connected THEN @ ELSE "ended"]
    /\ lastOp' = WlkOp("step", "none")
    /\ UNCHANGED <<rtask, wpc, wire>>
    /\ UNCHANGED <<cbVars, callerVars, consec, now, qVars, n8nVars>>

\* _audio_stream_loop: recv() raises ConnectionClosed.
StreamClosed(suspends) ==
    /\ Ready
    /\ wlk.audio_stream_task = "live"
    /\ wlk.ws = "closed"
    /\ WlkHandleDisconnect("audio_stream_loop", suspends)
    /\ UNCHANGED <<wpc, wire>>
    /\ UNCHANGED <<cbVars, callerVars, consec, now, qVars, n8nVars>>

\* The connection of the socket ends (remote end, network).
WlkRemoteClose ==
    /\ Ready
    /\ wlk.ws = "open"
    /\ wlk' = [wlk EXCEPT !.ws = "closed"]
    /\ lastOp' = WlkOp("step", "none")
    /\ UNCHANGED <<rtask, wpc, wire>>
    /\ UNCHANGED <<cbVars, callerVars, consec, now, qVars, n8nVars>>

NextWhisper ==
    \/ OwnerConnectBegin
    \/ \E h \in BOOLEAN : OwnerConnectHealth(h)
    \/ \E ok \in BOOLEAN : OwnerConnectWs(ok)
    \/ OwnerConnectConfig
    \/ \E k \in RTasks : ReconnectWake(k)
    \/ \E k \in RTasks, h \in BOOLEAN : ReconnectHealth(k, h)
    \/ \E k \in RTasks, ok \in BOOLEAN : ReconnectWs(k, ok)
    \/ \E k \in RTasks : ReconnectConfig(k)
    \/ \E k \in RTasks : FlushLock(k)
    \/ \E k \in RTasks : FlushSent(k)
    \/ \E k \in RTasks : FlushNext(k)
    \/ SendAudio
    \/ SendAudioRaise
    \/ SendAudioDone
    \/ SendAudioLock
    \/ \E h \in BOOLEAN, s \in BOOLEAN : HealthCheckRound(h, s)
    \/ \E kind \in {"transcription", "error"} : StreamMessage(kind)
    \/ \E s \in BOOLEAN : StreamClosed(s)
    \/ WlkRemoteClose

SpecWhisper == Init /\ [][NextWhisper]_vars

\* ------------------------------------------------- claims: circuit breaker

Running(c) == pc[c] = "running"
Elapsed == now - last_failure_time

\* C1: a call completing in Closed opens the breaker exactly when it is a
\* matching failure that brings the run of consecutive matching failures
\* (no success in between) to failure_threshold.
C1_OpensAtConsecutiveThreshold ==
    [][(lastOp'.op = "call_end" /\ state = "closed")
         => ((state' = "open")
               <=> (lastOp'.out = "failure" /\ consec' >= FailureThreshold))]_vars

\* C2: every call that is in flight and was dispatched while the breaker was
\* HalfOpen is the one call that made the Open -> HalfOpen transition.
C2_SingleFlightProbe ==
    /\ \A c \in Callers :
          (Running(c) /\ startedIn[c] = "half_open") => isProbe[c]
    /\ Cardinality({c \in Callers : Running(c) /\ startedIn[c] = "half_open"}) <= 1

\* C3: a call that arrives while the breaker is Open and recovery_timeout has
\* elapsed since the last failure moves it to HalfOpen and invokes the
\* operation, whatever probes came before.
C3_RecoveryTestedInEveryEpisode ==
    [][(lastOp'.op = "call_begin" /\ state = "open"
           /\ last_failure_time # None /\ Elapsed >= RecoveryTimeout)
         => (state' = "half_open" /\ lastOp'.out = "invoked")]_vars

\* C4: a call that arrives while the breaker is Open and less than
\* recovery_timeout has elapsed since the last failure gets CircuitOpenError,
\* the operation is not invoked, and state and counters are unchanged; and
\* an Open breaker always has a last failure time.
C4_OpenFailsFast ==
    /\ [](state = "open" => last_failure_time # None)
    /\ [][(lastOp'.op = "call_begin" /\ state = "open" /\ Elapsed < RecoveryTimeout)
            => /\ lastOp'.out = "CircuitOpenError"
               /\ pc' = pc
               /\ UNCHANGED <<state, failure_count, success_count, total_calls,
                              last_failure_time, last_success_time>>]_vars

C4_Witness ==
    /\ lastOp.op = "call_begin"
    /\ lastOp.out = "CircuitOpenError"
    /\ state = "open"
    /\ Elapsed < RecoveryTimeout
    /\ failure_count >= FailureThreshold

\* C5: the breaker enters Closed only by reset() or from HalfOpen by the
\* success of the probe call, the call that made the Open -> HalfOpen
\* transition.
C5_ClosedOnlyByProbe ==
    [][(state # "closed" /\ state' = "closed")
         => \/ lastOp'.op = "reset"
            \/ /\ state = "half_open"
               /\ lastOp'.op = "call_end"
               /\ lastOp'.out = "success"
               /\ isProbe[lastOp'.c]
               /\ startedIn[lastOp'.c] = "half_open"]_vars

C7_UnexpectedErrorPassesThrough ==
    [][(lastOp'.op = "call_end" /\ lastOp'.out = "other")
         => /\ pc'[lastOp'.c] = "idle"
            /\ UNCHANGED <<state, failure_count, success_count, total_calls,
                           last_failure_time, last_success_time>>]_vars

C7_Witness ==
    /\ lastOp.op = "call_end"
    /\ lastOp.out = "other"
    /\ state = "half_open"
    /\ startedIn[lastOp.c] = "half_open"

\* C8: right after reset() the breaker is Closed with all counters zero and
\* both times unset.
C8_ResetClearsAll ==
    lastOp.op = "reset"
      => /\ state = "closed"
         /\ failure_count = 0
         /\ success_count = 0
         /\ total_calls = 0
         /\ last_failure_time = None
         /\ last_success_time = None

C8_Witness ==
    /\ lastOp.op = "reset"
    /\ half_open_test_in_progress
    /\ \E c \in Callers : Running(c) /\ startedIn[c] = "half_open"

\* ---------------------------------------------------- claims: offline queue

\* C9: add_item stores exactly one new row, under an id no row was ever
\* stored under, with status pending, retry count 0, created_at and
\* next_retry_at equal to the time of the call (so it is eligible at once)
\* and the service, method, payload and max_retries it was given; it returns
\* that id and changes no other row it keeps.
C9_AddItemStoresNewPending ==
    [][ret'.op = "add_item"
         => LET id == ret'.id
                in == ret'.in[1]
            IN  /\ id \notin ever_ids
                /\ id \notin DOMAIN items
                /\ id \in DOMAIN items'
                /\ DOMAIN items' \ DOMAIN items = {id}
                /\ \A j \in DOMAIN items' \ {id} : items'[j] = items[j]
                /\ items'[id].id = id
                /\ items'[id].status = "pending"
                /\ items'[id].retry_count = 0
                /\ items'[id].created_at = now
                /\ items'[id].next_retry_at = items'[id].created_at
                /\ items'[id].service_name = in.service_name
                /\ items'[id].method_name = in.method_name
                /\ items'[id].max_retries = in.max_retries
                /\ JsonLoads(items'[id].payload) = in.payload
                /\ \E list \in GetPendingItems(items', now', DefaultLimit) :
                      \E k \in 1..Len(list) : list[k].id = id]_vars

\* A second item was added after the first one was deleted.
C9_Witness ==
    /\ ret.op = "add_item"
    /\ ret.id = 2
    /\ DOMAIN items = {2}
    /\ ever_ids = {1, 2}
    /\ now > 0

ReturnedIds == {ret.items[k].id : k \in 1..Len(ret.items)}

StoredEligible ==
    {i \in DOMAIN items :
        /\ items[i].status = "pending"
        /\ ~(items[i].next_retry_at # None /\ items[i].next_retry_at > now)}

\* C10: the list get_pending_items(limit) returns holds only stored items
\* that are pending with next_retry_at null or <= now, each once, in ascending
\* created_at, as many as there are up to limit, and no eligible item left
\* out was created before a returned one; each returned item carries the
\* fields of its row.
C10_PendingItemsEligibleOldestFirst ==
    ret.op = "get_pending_items"
      => LET L == ret.items
         IN  /\ ReturnedIds \subseteq StoredEligible
             /\ Cardinality(ReturnedIds) = Len(L)
             /\ Len(L) = Min(ret.limit, Cardinality(StoredEligible))
             /\ \A k, m \in 1..Len(L) :
                   k < m => L[k].created_at <= L[m].created_at
             /\ \A e \in StoredEligible \ ReturnedIds :
                   \A k \in 1..Len(L) : L[k].created_at <= items[e].created_at
             /\ \A k \in 1..Len(L) :
                   /\ L[k].status = "pending"
                   /\ L[k].retry_count = items[L[k].id].retry_count
                   /\ L[k].service_name = items[L[k].id].service_name
                   /\ L[k].method_name = items[L[k].id].method_name
                   /\ L[k].next_retry_at <= now

\* get_pending_items(1) with two eligible items of different age returned
\* the older one alone.
C10_Witness ==
    /\ ret.op = "get_pending_items"
    /\ ret.limit = 1
    /\ Len(ret.items) = 1
    /\ Cardinality(StoredEligible) = 2
    /\ \E e \in StoredEligible :
          items[e].created_at > ret.items[1].created_at

\* ------------------------------------------------ claims: retries and ends

\* The step in which the handler awaited for item id raises and process_queue
\* records the failure.
HandlerFails(id) ==
    /\ processing
    /\ pq_idx # 0
    /\ pq_items[pq_idx].id = id
    /\ id \in Ids(items) \cap Ids(items')
    /\ items[id].status = "processing"
    /\ items'[id].status \in {"pending", "failed"}

\* Every failure recorded for the item so far, the one of the awaited
\* invocation not yet among them, was a failure of its handler.
OnlyHandlerFailures(id) == items[id].retry_count = Len(handled[id]) - 1

\* C11: for a handler that always fails, the failure of the Nth invocation
\* makes an item with max_retries = M terminal Failed exactly when N = M, and
\* the handler is not invoked for a Failed item again.
C11_TerminalAfterMaxRetriesAttempts ==
    [][\A id \in Ids(items) :
         /\ (HandlerFails(id) /\ OnlyHandlerFailures(id))
              => ((items'[id].status = "failed")
                    <=> (Len(handled[id]) = items[id].max_retries))
         /\ (items[id].status = "failed" /\ id \in Ids(items'))
              => handled'[id] = handled[id]]_vars

\* The step is a direct call update_item_status(id, status, ...).
StatusCall(id, status) ==
    /\ ret'.op = "update_item_status"
    /\ ret'.id = id
    /\ ret'.in[1] = status

\* C12: marking an item with retry count r < max_retries failed sets it back
\* to pending with retry count r + 1 and next_retry_at = now + min(2^r, 300).
C12_BackoffLaw ==
    [][\A id \in Ids(items) :
         (StatusCall(id, "failed") /\ items[id].retry_count < items[id].max_retries)
           => LET r == items[id].retry_count
              IN  /\ items'[id].status = "pending"
                  /\ items'[id].retry_count = r + 1
                  /\ items'[id].next_retry_at
                       = now + (IF 2^r <= BackoffCap THEN 2^r ELSE BackoffCap)]_vars

\* A failure was just recorded whose doubled delay exceeds the cap: the item
\* is pending again, due 300 s after the failure.
C12_Witness ==
    /\ ret.op = "update_item_status"
    /\ ret.in[1] = "failed"
    /\ ret.id \in Ids(items)
    /\ items[ret.id].status = "pending"
    /\ 2^(items[ret.id].retry_count - 1) > BackoffCap
    /\ items[ret.id].next_retry_at = now + BackoffCap

\* The step in which a process_queue run finds the pending item id without a
\* handler for its service and records that.
NoHandlerFound(id) ==
    /\ id \in Ids(items) \cap Ids(items')
    /\ items[id].status = "pending"
    /\ items'[id] # items[id]
    /\ items'[id].error_message = "No handler"

\* C13: an item found without a registered handler becomes terminal Failed at
\* once, its retry count and next_retry_at untouched, and no later
\* get_pending_items returns it.
C13_NoHandlerFailsAtOnce ==
    [][/\ \A id \in Ids(items) :
            NoHandlerFound(id)
              => /\ items'[id].status = "failed"
                 /\ items'[id].retry_count = items[id].retry_count
                 /\ items'[id].next_retry_at = items[id].next_retry_at
       /\ ret'.op = "get_pending_items"
            => \A k \in 1..Len(ret'.items) :
                  ret'.items[k].error_message # "No handler"]_vars

\* C14: every stored item has retry_count <= max_retries.
C14_RetryCountWithinLimit ==
    \A id \in Ids(items) : items[id].retry_count <= items[id].max_retries

\* An item that used up all its retries, and was retried at least once.
C14_Witness ==
    \E id \in Ids(items) :
        /\ items[id].max_retries > 0
        /\ items[id].retry_count = items[id].max_retries
        /\ items[id].status = "failed"

\* The item used up its retries and is marked failed.
Terminal(id) ==
    /\ items[id].status = "failed"
    /\ items[id].retry_count = items[id].max_retries

\* C15: whatever the queue does next, an item that is Failed with
\* retry_count = max_retries keeps its status and retry count while it is
\* stored, no handler is invoked for it, and get_pending_items does not
\* return it.
C15_FailedIsTerminal ==
    [][\A id \in Ids(items) :
         Terminal(id)
           => /\ id \in Ids(items')
                   => /\ items'[id].status = "failed"
                      /\ items'[id].retry_count = items[id].retry_count
              /\ handled'[id] = handled[id]
              /\ ret'.op = "get_pending_items"
                   => \A k \in 1..Len(ret'.items) : ret'.items[k].id # id]_vars

\* get_pending_items has just run over a table holding a terminal item whose
\* last scheduled retry time has passed.
C15_Witness ==
    /\ ret.op = "get_pending_items"
    /\ \E id \in Ids(items) :
          /\ Terminal(id)
          /\ items[id].max_retries > 0
          /\ items[id].next_retry_at <= now
          /\ Len(handled[id]) > 0

\* ------------------------------------------------------ claims: round trip

\* The item was completed without a failure recorded for it before.
CompletedFirstTime(id) ==
    /\ items[id].status = "completed"
    /\ items[id].retry_count = 0

\* The item was handed to a handler and no failure was recorded for it.
HandledWithoutFailure(id) ==
    /\ Len(handled[id]) > 0
    /\ items[id].retry_count = 0
    /\ items[id].status # "failed"

\* C16 as stated: an item handed to a handler that does not fail is
\* processing until the handler returns and completed from then on; it was
\* handed over exactly once, with the method, payload and metadata add_item
\* was given, and get_pending_items does not return it.
C16_RoundTripExactArguments ==
    \A id \in Ids(items) :
        /\ HandledWithoutFailure(id)
             => items[id].status \in {"processing", "completed"}
        /\ CompletedFirstTime(id)
          => /\ handled[id] = <<[method_name |-> added[id].method_name,
                                 payload |-> added[id].payload,
                                 metadata |-> added[id].metadata]>>
             /\ ret.op = "get_pending_items" => id \notin ReturnedIds

\* C16 (amended): as above, but the handler receives None for the metadata
\* when add_item was given empty metadata ({} or None).
C16_RoundTrip ==
    \A id \in Ids(items) :
        /\ HandledWithoutFailure(id)
             => items[id].status \in {"processing", "completed"}
        /\ CompletedFirstTime(id)
          => /\ handled[id] = <<[method_name |-> added[id].method_name,
                                 payload |-> added[id].payload,
                                 metadata |-> IF added[id].metadata = <<"py", "{}">>
                                              THEN PyNone
                                              ELSE added[id].metadata]>>
             /\ ret.op = "get_pending_items" => id \notin ReturnedIds

\* get_pending_items has just run while a completed item is stored whose
\* payload is not empty.
C16_Witness ==
    /\ ret.op = "get_pending_items"
    /\ \E id \in Ids(items) :
          /\ CompletedFirstTime(id)
          /\ added[id].payload # <<"py", "{}">>
          /\ Len(handled[id]) = 1

\* The item is stored as update_item_status(id, COMPLETED) leaves it.
AlreadyCompleted(id) ==
    /\ id \in Ids(items)
    /\ items[id].status = "completed"
    /\ items[id].error_message = "NULL"

\* The step is update_item_status(id, COMPLETED) on an item already completed.
SecondCompleted(id) ==
    /\ AlreadyCompleted(id)
    /\ StatusCall(id, "completed")
    /\ ret'.in[2] = "NULL"

\* C17 as stated: update_item_status(id, COMPLETED) on an item that is
\* already completed leaves the stored table and the per-status counts as
\* they were.
C17_SecondCompletedChangesNothing ==
    [][\A id \in Ids(items) :
         SecondCompleted(id)
           => /\ items' = items
              /\ GetQueueStats(items') = GetQueueStats(items)]_vars

\* C17 (amended): update_item_status(id, COMPLETED) on an item that is
\* already completed changes nothing but the item's updated_at, which becomes
\* the time of the call; the per-status counts stay as they were.
C17_SecondCompletedKeepsAllButUpdatedAt ==
    [][\A id \in Ids(items) :
         SecondCompleted(id)
           => /\ items' = [items EXCEPT ![id].updated_at = now]
              /\ GetQueueStats(items') = GetQueueStats(items)]_vars

\* update_item_status(id, COMPLETED) has just run on an item it found
\* completed, later than the item was created.
C17_Witness ==
    /\ ret.op = "update_item_status"
    /\ ret.in = <<"completed", "NULL">>
    /\ lastOp.op = "update_item_status"
    /\ lastOp.c = ret.id
    /\ lastOp.out = "completed"
    /\ ret.id \in Ids(items)
    /\ items[ret.id].status = "completed"
    /\ items[ret.id].updated_at = now
    /\ items[ret.id].created_at < now

\* -------------------------------------------------------- claims: capacity

\* C18: an add_item that finds max_items or more rows stored deletes only
\* rows that are completed or failed and were last updated before the
\* retention cutoff, leaves every other row as it is, and stores the new item
\* under the id it returns.
C18_PurgeOnlyOldTerminal ==
    [][(ret'.op = "add_item" /\ GetQueueSize(items) >= MaxItems)
         => /\ ret'.id \in Ids(items') \ Ids(items)
            /\ items'[ret'.id].status = "pending"
            /\ items'[ret'.id].method_name = ret'.in[1].method_name
            /\ \A id \in Ids(items) :
                  IF id \in Ids(items')
                  THEN items'[id] = items[id]
                  ELSE /\ items[id].status \in {"completed", "failed"}
                       /\ items[id].updated_at < now - KeepSeconds]_vars

\* add_item has just purged an old terminal item and stored the new one.
C18_Witness ==
    /\ ret.op = "add_item"
    /\ ret.id = 2
    /\ Ids(items) = {2}
    /\ now > KeepSeconds

\* ---------------------------------------------------- claims: single run

\* The step is the run in progress resuming from `await handler(...)`: it
\* ends, or goes on to a later item of the list it fetched.
RunResumes ==
    /\ processing
    /\ \/ ~processing'
       \/ (pq_items' = pq_items /\ pq_idx' > pq_idx)

\* C19: _processing is set exactly while a process_queue run is suspended in
\* a handler, so it is cleared when the run ends, also when it ends with an
\* error; and until that run resumes no step, a further process_queue call
\* included, fetches a list, invokes a handler or changes a stored item.
C19_RunsDoNotOverlap ==
    [][/\ processing' <=> (pq_idx' # 0)
       /\ (processing /\ ~RunResumes)
            => /\ pq_items' = pq_items
               /\ pq_idx' = pq_idx
               /\ \A id \in DOMAIN handled : handled'[id] = handled[id]
               /\ \A id \in Ids(items) \cap Ids(items') : items'[id] = items[id]]_vars

\* A run is in progress again after an earlier run ended with an error: the
\* item that run was handling is still marked processing, and it is not the
\* one the current run awaits.
C19_Witness ==
    /\ processing
    /\ pq_idx # 0
    /\ \E id \in Ids(items) :
          /\ items[id].status = "processing"
          /\ id # pq_items[pq_idx].id
          /\ Len(handled[id]) > 0

\* ------------------------------------------------------ claims: n8n client

\* The step is a run of _handle_disconnect.
DisconnectHandled == lastOp'.op \in {"ping_loop", "message_handler_loop"}

\* C20: when _handle_disconnect has run, the state is Disconnected, the
\* pending-request map is empty, and every future that was in the map and
\* not yet resolved holds the connection error.
C20_DisconnectResolvesAllPending ==
    [][DisconnectHandled
         => /\ conn_state' = "disconnected"
            /\ pending_requests' = <<>>
            /\ \A k \in DOMAIN pending_requests :
                  futures[pending_requests[k].fut] = "pending"
                    => futures'[pending_requests[k].fut] = "exception"]_vars

\* The reconnect tasks that exist: the one _reconnect_task points to and
\* the unreferenced ones.
ReconnectTasks ==
    unreferenced.reconnect + (IF reconnect_task # <<>> THEN 1 ELSE 0)

\* C21: there is never more than one reconnect task; when a connected
\* client with attempt counter 0 handles a disconnect, one reconnect is
\* scheduled with delay reconnect_interval * 1; a disconnect handled while
\* a scheduled reconnect has not run yet creates no task and leaves the
\* attempt counter alone.
C21_OneReconnectPerDisconnect ==
    /\ [](ReconnectTasks <= 1)
    /\ [][/\ (DisconnectHandled /\ conn_state = "connected" /\ reconnect_attempts = 0)
             => /\ reconnect_task' = <<ReconnectInterval * 1>>
                /\ conn_pc'["reconnect"] = "sleeping"
                /\ ReconnectTasks' = 1
          /\ (DisconnectHandled /\ conn_pc["reconnect"] = "sleeping")
             => /\ reconnect_task' = reconnect_task
                /\ reconnect_attempts' = reconnect_attempts
                /\ ReconnectTasks' = ReconnectTasks]_vars

\* The step ends a connect() made by the reconnect task in failure:
\* websockets.connect raised, or the handshake could not be sent.
ReconnectAttemptFails ==
    /\ conn_pc'["reconnect"] = "idle"
    /\ \/ conn_pc["reconnect"] = "connecting"
       \/ conn_pc["reconnect"] = "handshake" /\ ws # "open"

\* C22: when a reconnect attempt fails with the attempt counter below
\* max_reconnect_attempts, another reconnect is scheduled.
C22_FailedReconnectReschedules ==
    [][(ReconnectAttemptFails /\ reconnect_attempts < MaxReconnectAttempts)
         => /\ reconnect_task' # <<>>
            /\ conn_pc'["reconnect"] = "sleeping"]_vars

\* Request r has failed with the Timeout error.
TimedOut(r) == req_out[r] = "timeout"

\* The step is the except clause of _send_ws_request for request r.
TimeoutRaised(r) ==
    req_pc[r] = "timing_out" /\ req_pc'[r] = "done" /\ req_out'[r] # "cancelled"

\* C23: a request whose wait_for times out fails with the Timeout error and
\* its id leaves the pending-request map; from then on the id of a timed-out
\* request is not in the map (a late response for it is unmatched), and no
\* step resolves another request under that id.
C23_TimeoutDeregisters ==
    /\ [](\A r \in Requests :
            TimedOut(r) => ~DictHas(pending_requests, req_id[r]))
    /\ [][\A r \in Requests :
            /\ TimeoutRaised(r)
                 => /\ TimedOut(r)'
                    /\ ~DictHas(pending_requests', req_id[r])
            /\ TimedOut(r)
                 => \A q \in Requests :
                       (futures[q] # "result" /\ futures'[q] = "result")
                         => req_id[q] # req_id[r]]_vars

\* A request has timed out while another one is still waiting in the map
\* and the inbound loop can still deliver a response.
C23_Witness ==
    \E r, q \in Requests :
        /\ TimedOut(r)
        /\ req_pc[q] = "waiting"
        /\ DictHas(pending_requests, req_id[q])
        /\ message_handler_task = "live"
        /\ ws = "open"

\* The step belongs to a connect() called by the owner.
OwnerConnectStep == conn_pc'["owner"] # conn_pc["owner"]

\* C24: the state becomes Failed only in a step that finds the attempt
\* counter at max_reconnect_attempts, and once Failed, no step other than
\* the owner's connect() changes the state or schedules or runs a reconnect.
C24_FailedOnlyAtLimitAndFinal ==
    [][/\ (conn_state # "failed" /\ conn_state' = "failed")
             => reconnect_attempts >= MaxReconnectAttempts
       /\ (conn_state = "failed" /\ ~OwnerConnectStep)
             => /\ conn_state' = "failed"
                /\ reconnect_task' = reconnect_task
                /\ conn_pc'["reconnect"] = conn_pc["reconnect"]]_vars

\* Request r is in flight: sent or being sent, its caller not yet answered.
InFlight(r) == req_pc[r] \in {"sending", "waiting", "timing_out"}

\* C25: two requests in flight at the same time never carry the same id,
\* and every request in flight with a pending future is the one the map
\* holds under its id.
C25_DistinctCorrelationIds ==
    /\ \A r, q \in Requests :
          (r # q /\ InFlight(r) /\ InFlight(q)) => req_id[r] # req_id[q]
    /\ \A r \in Requests :
          (InFlight(r) /\ futures[r] = "pending")
            => /\ DictHas(pending_requests, req_id[r])
               /\ DictGet(pending_requests, req_id[r]) = r

\* The step creates a reconnect task.
ReconnectScheduled == reconnect_task' # <<>> /\ reconnect_task' # reconnect_task

\* The step is a connect() that succeeds: the socket opens, or connect()
\* returns True after the handshake.
ConnectSucceeds ==
    \E c \in ConnCallers :
        \/ conn_pc[c] = "connecting" /\ conn_pc'[c] = "handshake"
        \/ conn_pc[c] = "handshake" /\ ws = "open" /\ conn_pc'[c] = "idle"

\* C26: the attempt counter stays within 0..max_reconnect_attempts; a
\* reconnect that is scheduled increments it by one and waits
\* reconnect_interval times the incremented value; the counter is zero
\* after a successful connect, and whenever the state is Connected.
C26_AttemptCounterAndLinearBackoff ==
    /\ [](reconnect_attempts \in 0..MaxReconnectAttempts)
    /\ [](conn_state = "connected" => reconnect_attempts = 0)
    /\ [][/\ ReconnectScheduled
               => /\ reconnect_attempts' = reconnect_attempts + 1
                  /\ reconnect_task' = <<ReconnectInterval * reconnect_attempts'>>
          /\ ConnectSucceeds => reconnect_attempts' = 0]_vars

\* Connected with the counter back at zero while the reconnect scheduled as
\* the second attempt (delay 2 * reconnect_interval) has not run yet.
C26_Witness ==
    /\ conn_state = "connected"
    /\ reconnect_attempts = 0
    /\ reconnect_task = <<ReconnectInterval * 2>>
    /\ conn_pc["reconnect"] = "sleeping"

\* The step ends a connect() whose socket opened but whose handshake could
\* not be sent.
HandshakeFails ==
    \E c \in ConnCallers :
        conn_pc[c] = "handshake" /\ ws # "open" /\ conn_pc'[c] = "idle"

\* C27: when the handshake fails, neither loop started for that socket is
\* left suspended inside its loop (a task that has not run yet ends at its
\* first test of the state), and the state is not Connected when connect()
\* returns.
C27_HandshakeFailureStopsLoops ==
    [][HandshakeFails
         => /\ ping_task' # "live"
            /\ message_handler_task' # "live"
            /\ conn_state' # "connected"]_vars

\* The probe loops and the inbound loops that have not ended: the task the
\* client points to and the unreferenced ones.
PingLoops == unreferenced.ping + (IF NotEnded(ping_task) THEN 1 ELSE 0)
InboundLoops == unreferenced.msg + (IF NotEnded(message_handler_task) THEN 1 ELSE 0)

\* C29: there is never more than one probe loop nor more than one inbound
\* loop that has not ended, and a connect that starts new loops leaves no
\* earlier loop behind.
C29_OneLoopOfEachKind ==
    /\ [](PingLoops <= 1 /\ InboundLoops <= 1)
    /\ [][lastOp'.op = "start_background_tasks"
            => /\ unreferenced' = unreferenced
               /\ ping_task' = "created"
               /\ message_handler_task' = "created"]_vars

\* A connect has just replaced loops that had not ended (left by a failed
\* handshake or by an overlapping connect) by fresh ones.
C29_Witness ==
    /\ lastOp = N8nOp("start_background_tasks", "replaced")
    /\ PingLoops = 1
    /\ InboundLoops = 1

\* The step is the inbound loop handling a frame it delivers nowhere: an
\* unmatched response, or one of UndeliveredFrames.
FrameDropped == lastOp'.op = "frame"

\* C30: a frame that cannot be delivered, received while Connected, leaves
\* the state, the pending-request map with its futures and the attempt
\* counter as they were, and the inbound loop stays in its loop.
C30_UndeliveredFramesChangeNothing ==
    [][(FrameDropped /\ conn_state = "connected")
         => /\ conn_state' = "connected"
            /\ pending_requests' = pending_requests
            /\ futures' = futures
            /\ reconnect_attempts' = reconnect_attempts
            /\ reconnect_task' = reconnect_task
            /\ message_handler_task' = "live"]_vars

\* A frame has just been dropped on a connected client while a request is
\* waiting in the map.
C30_Witness ==
    /\ lastOp.op = "frame"
    /\ conn_state = "connected"
    /\ message_handler_task = "live"
    /\ \E r \in Requests :
          /\ req_pc[r] = "waiting"
          /\ futures[r] = "pending"
          /\ DictHas(pending_requests, req_id[r])

\* ------------------------------------------------ claims: send_request

\* The step ends a send_request of caller c with an error raised to it.
SendFails(c) ==
    /\ lastOp'.op = "send_request"
    /\ lastOp'.c = c
    /\ lastOp'.out \in SendFailures \cup {"CircuitOpenError"}

\* C28: when send_request fails (breaker open, timeout, connection error,
\* webhook error), the step that raises the error to the caller has added
\* exactly one row to the queue: Pending, service n8n, the request's method
\* and payload; the rows that stay are as they were.
C28_FailedRequestIsQueuedOnce ==
    [][\A c \in Callers :
         SendFails(c)
           => /\ pc'[c] = "idle"
              /\ Ids(items') \ Ids(items) = {seq'}
              /\ items'[seq'].status = "pending"
              /\ items'[seq'].service_name = "n8n"
              /\ items'[seq'].method_name = SendArgs[c].method
              /\ JsonLoads(items'[seq'].payload) = SendArgs[c].data
              /\ \A i \in Ids(items) \cap Ids(items') : items'[i] = items[i]]_vars

\* Three failures have opened the breaker and a fourth request has been
\* rejected by it and queued.
C28_Witness ==
    /\ lastOp.op = "send_request"
    /\ lastOp.out = "CircuitOpenError"
    /\ state = "open"
    /\ GetQueueSize(items) = 4
    /\ items[seq].method_name = SendArgs[lastOp.c].method

\* C38 (as stated): in every reachable state total_calls is the sum of
\* success_count and failure_count.
C38_TotalIsSuccessPlusFailure ==
    total_calls = success_count + failure_count

ClosesFromHalfOpen == state = "half_open" /\ state' = "closed"

\* C38 (amended): total_calls is never less than success_count plus
\* failure_count.  A call ending in success adds one to total_calls and to
\* success_count, and sets failure_count to zero when it closes a HalfOpen
\* breaker; a call ending in a matching failure adds one to total_calls and
\* to failure_count; a call rejected with CircuitOpenError, the dispatch of
\* a call, and a call ending in another error change none of the three.
\* The sum equals total_calls until a success closes a HalfOpen breaker.
C38_TotalCountsEveryRecordedCall ==
    /\ [](total_calls >= success_count + failure_count)
    /\ [][/\ (lastOp'.op = "call_end" /\ lastOp'.out = "success")
             => /\ total_calls' = total_calls + 1
                /\ success_count' = success_count + 1
                /\ failure_count' = IF state = "half_open" THEN 0 ELSE failure_count
          /\ (lastOp'.op = "call_end" /\ lastOp'.out = "failure")
             => /\ total_calls' = total_calls + 1
                /\ failure_count' = failure_count + 1
                /\ success_count' = success_count
          /\ (lastOp'.op = "call_begin"
                \/ (lastOp'.op = "call_end" /\ lastOp'.out = "other"))
             => UNCHANGED <<total_calls, success_count, failure_count>>
          /\ (C38_TotalIsSuccessPlusFailure /\ ~ClosesFromHalfOpen
                /\ lastOp'.op # "reset")
             => total_calls' = success_count' + failure_count']_vars

C38_Witness ==
    /\ lastOp.op = "call_end"
    /\ lastOp.out = "success"
    /\ state = "closed"
    /\ failure_count = 0
    /\ success_count = 1
    /\ total_calls > FailureThreshold

\* C34: every change of the breaker's state appends the entry (from, to,
\* timestamp) to state_changes and nothing else alters state_changes, so the
\* list is the sequence of state changes and the `to` of its last entry is
\* the current state; and the list is bounded in length (by the number of
\* entries get_stats shows).
C34_HistoryIsTheSequenceOfChanges ==
    /\ [](state_changes # <<>> => state_changes[Len(state_changes)].to = state)
    /\ [](Len(state_changes) <= HistoryShown)
    /\ [][IF state' # state
          THEN state_changes' = Append(state_changes,
                   [from |-> state, to |-> state', timestamp |-> now])
          ELSE state_changes' = state_changes]_vars

\* C37: the number of stored items never exceeds max_items.
C37_SizeWithinMaxItems ==
    GetQueueSize(items) <= MaxItems

\* ------------------------------------------- claims: two queue processors

\* A handler is invoked for item id in this step.
Invoked(id) ==
    /\ id \in DOMAIN handled
    /\ Len(handled'[id]) = Len(handled[id]) + 1

\* The item whose handler a run is suspended in (0: none).
HandlingMain == IF processing /\ pq_idx # 0 THEN pq_items[pq_idx].id ELSE 0
HandlingPeer ==
    IF peer.processing /\ peer.pq_idx # 0 THEN peer.pq_items[peer.pq_idx].id ELSE 0

\* C32: two processors over one store never both take the same item: they
\* are never both inside a handler for the same item, and a handler is
\* invoked for a stored item only when that step moves it from Pending to
\* Processing.
C32_ProcessorsNeverShareAnItem ==
    /\ [](HandlingMain # 0 => HandlingMain # HandlingPeer)
    /\ [][\A id \in Ids(items) :
             Invoked(id) => items[id].status = "pending"]_vars

\* ---------------------------------------------- claims: queue and restart

StoredAsProcessing(id) == id \in Ids(items) /\ items[id].status = "processing"

\* C33: while a run is suspended in the handler of an item the item is
\* stored as Processing; a restart leaves the table as it was; and an item
\* found Processing after a restart eventually stops being Processing
\* (eligible again, terminal, or gone), the background processor running.
C33_ProcessingIsReconciledAfterRestart ==
    /\ [](HandlingMain # 0 => StoredAsProcessing(HandlingMain))
    /\ [][ret'.op = "init_db" => items' = items]_vars
    /\ \A id \in 1..MaxAdds :
          (ret.op = "init_db" /\ StoredAsProcessing(id)) ~> ~StoredAsProcessing(id)

\* ------------------------------------------------- claims: queued retries

\* A step of a process_queue run whose handler is _retry_handler.
RunStep == lastOp'.op \in {"process_queue", "retry"}

\* C35: no step of a process_queue run changes the number of stored items or
\* adds an item, whether the retry succeeds or fails; a failed retry changes
\* the retried item only.
C35_RetriesNeverGrowTheQueue ==
    [][RunStep
         => /\ GetQueueSize(items') = GetQueueSize(items)
            /\ Ids(items') = Ids(items)
            /\ \A id \in Ids(items) :
                  (pq_idx = 0 \/ id # pq_items[pq_idx].id) => items'[id] = items[id]]_vars

\* C36: every run of _handle_disconnect reaches its end, also when the map
\* holds an entry whose future is already done: it returns without an
\* error, every future of the map that was still pending holds the
\* connection error, the map is empty, and a reconnect task exists unless
\* the attempt counter had reached the maximum.
C36_DisconnectAlwaysRunsToItsEnd ==
    [][DisconnectHandled
         => /\ lastOp'.out = "returned"
            /\ pending_requests' = <<>>
            /\ \A k \in DOMAIN pending_requests :
                  futures[pending_requests[k].fut] = "pending"
                    => futures'[pending_requests[k].fut] = "exception"
            /\ (reconnect_task' # <<>>
                  \/ reconnect_attempts >= MaxReconnectAttempts)]_vars

\* ------------------------------------------------------- claims: shutdown

\* close() has returned (and the owner has not called connect() since).
Closed == conn_pc["owner"] = "closed"

\* C31: once close() has returned the state is Disconnected, neither loop
\* and no reconnect task is left that has not ended; and from then on no
\* step changes the state, the socket, the tasks, the attempt counter or
\* the position of a connect() (no connection attempt starts).
C31_ClosedStaysDisconnected ==
    /\ [](Closed => /\ conn_state = "disconnected"
                    /\ ~NotEnded(ping_task)
                    /\ ~NotEnded(message_handler_task)
                    /\ conn_pc["reconnect"] = "idle"
                    /\ PingLoops + InboundLoops + unreferenced.reconnect = 0)
    /\ [][Closed => UNCHANGED <<conn_state, ws, ping_task, message_handler_task,
                                reconnect_task, reconnect_attempts, conn_pc,
                                unreferenced>>]_vars

\* close() has returned after having cancelled a reconnect task and both
\* loops, and a request that was waiting has since ended.
C31_Witness ==
    /\ Closed
    /\ reconnect_task # <<>>
    /\ ping_task = "ended"
    /\ message_handler_task = "ended"
    /\ ws = "closed"
    /\ lastOp.op # "close"

\* -------------------------------------------- claims: transcription client
\* A run of _handle_disconnect of the transcription client, by either loop.
WlkDisconnectHandled == lastOp'.op \in {"health_check_loop", "audio_stream_loop"}

\* C39: when the health-check loop or the stream loop of the transcription
\* client detects a dead connection, its disconnect handling runs to the
\* end, although it cancels the loop task it runs in: the handler returns,
\* the client is not connected, the socket is cleared, and a reconnect task
\* is referenced unless the attempt counter had reached the maximum.
C39_WhisperDisconnectRunsToItsEnd ==
    [][WlkDisconnectHandled
         => /\ lastOp'.out = "returned"
            /\ ~wlk'.connected
            /\ wlk'.ws = "none"
            /\ (wlk'.reconnect_task # 0
                  \/ wlk.reconnect_attempts >= MaxReconnectAttempts)]_vars

Chunks(q) == {q[i] : i \in DOMAIN q}

\* C40: a chunk leaves the audio buffer only after the socket accepted it
\* (no failed reconnect attempt and no failed send in the flush discards a
\* buffered chunk), and the flush sends the buffered chunks in the order
\* of the buffer: when it sends a chunk, every chunk buffered before it
\* has been sent.
C40_BufferedChunksAreSentNotDropped ==
    /\ [][\A ch \in Chunks(wlk.audio_buffer) :
             ch \notin Chunks(wlk'.audio_buffer) => ch \in Chunks(wire')]_vars
    /\ [][\A i \in DOMAIN wlk.audio_buffer :
             (lastOp'.op = "flush" /\ wire' = Append(wire, wlk.audio_buffer[i]))
                => \A j \in 1..(i - 1) : wlk.audio_buffer[j] \in Chunks(wire)]_vars

====
